---- MODULE Spec2Model ----
(***************************************************************************)
(* A model of the EDM plugin: the distance engine (src/src/distances.cpp,  *)
(* src/src/manifold.h), the host entrypoint (src/src/stata.cpp) and the    *)
(* per-row driver loops (src/src/benchmark.cpp).                           *)
(*                                                                         *)
(* Numbers.  A double is modelled as an exact rational.  Manifold cells,   *)
(* missingdistance and per-column sub-distances are integers counting      *)
(* units of 1/Scale; idw is a whole number.  An accumulated L^p distance   *)
(* is a record [num, den, root] that stands for num/den, or for            *)
(* sqrt(num/den) when root is TRUE, so that sqrt and the division by       *)
(* E_actual are kept exact.                                                *)
(***************************************************************************)
EXTENDS Integers, Sequences, FiniteSets, TLC

VARIABLES
  pc,        \* position of the modelled call
  opts,      \* Options of the run
  M,         \* library manifold
  Mp,        \* query (prediction) manifold
  Mp_i,      \* query row handed to the distance engine
  inpInds,   \* candidate library rows handed to the distance engine
  absIsInt,  \* the build resolved the unqualified abs(double) to int abs(int)
  ret,       \* DistanceIndexPairs returned by the distance engine
  host,      \* host-side state of the plugin (stata.cpp)
  loop,      \* state of the per-row driver loop (benchmark.cpp)
  run,       \* the asynchronous run behind the future predictions (stata.cpp)
  fit,       \* state of the S-map fit of one query (benchmark.cpp)
  sess,      \* a session of plugin calls: the globals of stata.cpp and the host
  split      \* the training and prediction filters built by edm (stata.cpp)

\* the variables of the later sections
aux == <<fit, sess, split>>

vars == <<pc, opts, M, Mp, Mp_i, inpInds, absIsInt, ret, host, loop, run, aux>>

(***************************************************************************)
(* Bounds of the model                                                     *)
(***************************************************************************)
Scale == 2           \* cells are multiples of 1/Scale
MaxIdw == 2          \* largest inter-panel penalty idw (whole units)
MaxMissingDistance == 1   \* largest missingdistance, in units of 1/Scale

Values == {0, 1}                 \* non-missing cell values, units of 1/Scale
LibRows == {0, 1}                \* rows of the library manifold
PanelIds == {0, 1}

MISSING_D == 1000000             \* the missing sentinel, in units of 1/Scale

Abs(x) == IF x < 0 THEN -x ELSE x

RECURSIVE SeqSum(_)
SeqSum(s) == IF s = <<>> THEN 0 ELSE Head(s) + SeqSum(Tail(s))

Range(s) == {s[n] : n \in DOMAIN s}

Idle == [none |-> TRUE]

\* the later sections have not started
AuxIdle == fit = Idle /\ sess = Idle /\ split = Idle

(***************************************************************************)
(* Manifold (manifold.h)                                                   *)
(***************************************************************************)
\* Manifold::operator()(i, j) == _flat[i * _E_actual + j]
MAt(Man, i, j) == Man.flat[i * Man.E_actual + j + 1]

\* Manifold::panel(i)
panel(Man, i) == Man.panel_ids[i + 1]

\* Manifold::any_missing(obsNum)
any_missing(Man, i) == \E j \in 0 .. Man.E_actual - 1 : MAt(Man, i, j) = MISSING_D

(***************************************************************************)
(* lp_distances (distances.cpp:18-79)                                      *)
(***************************************************************************)
IsMAE(o) == o.distance = "MeanAbsoluteError"

\* Units of the accumulator dist_i: 1/(Scale*E_actual) for MeanAbsoluteError,
\* 1/Scale^2 for Euclidean (the sum of squares).
lp_den(o, Ml) == IF IsMAE(o) THEN Scale * Ml.E_actual ELSE Scale * Scale

\* dist_i = MISSING_D, expressed in the accumulator's units
lp_missing(o, Ml) == (MISSING_D * lp_den(o, Ml)) \div Scale

\* mutant of lp_seed: the panel penalty is forgotten
lp_seed_no_penalty(o, Ml, Mq, i, q) == 0

\* distances.cpp:28-34: the accumulator starts at 0 plus the panel penalty
lp_seed(o, Ml, Mq, i, q) ==
  IF o.panelMode /\ o.idw > 0
    THEN o.idw * (IF panel(Ml, i) # panel(Mq, q) THEN 1 ELSE 0) * lp_den(o, Ml)
    ELSE 0

\* distances.cpp:44: either value of column j is missing
lp_col_missing(Ml, Mq, i, q, j) ==
  (MAt(Ml, i, j) = MISSING_D) \/ (MAt(Mq, q, j) = MISSING_D)

\* mutant of dist_ij: a column missing on both sides counts as equal values
dist_ij_both_missing_equal(o, Ml, Mq, i, q, j) ==
  IF MAt(Ml, i, j) = MISSING_D /\ MAt(Mq, q, j) = MISSING_D
    THEN 0
    ELSE IF lp_col_missing(Ml, Mq, i, q, j)
           THEN o.missingdistance
           ELSE IF o.metrics[j + 1] = "Diff"
                  THEN MAt(Ml, i, j) - MAt(Mq, q, j)
                  ELSE (IF MAt(Ml, i, j) # MAt(Mq, q, j) THEN Scale ELSE 0)

\* distances.cpp:44-59: the sub-distance dist_ij, in units of 1/Scale
dist_ij(o, Ml, Mq, i, q, j) ==
  IF lp_col_missing(Ml, Mq, i, q, j)
    THEN o.missingdistance
    ELSE IF o.metrics[j + 1] = "Diff"
           THEN MAt(Ml, i, j) - MAt(Mq, q, j)
           ELSE (IF MAt(Ml, i, j) # MAt(Mq, q, j) THEN Scale ELSE 0)

\* distances.cpp:62: abs(dist_ij) / M.E_actual().  abs is unqualified: a build
\* that sees only int abs(int) converts dist_ij to int (truncation toward
\* zero) and divides two ints; a build that sees the double overload is exact.
lp_mae_term(d, E, isInt) ==
  IF isInt THEN ((Abs(d) \div Scale) \div E) * (Scale * E)
           ELSE Abs(d)

\* distances.cpp:61-65: what column j adds to dist_i
lp_term(o, Ml, d, isInt) ==
  IF IsMAE(o) THEN lp_mae_term(d, Ml.E_actual, isInt)
              ELSE d * d

\* distances.cpp:36-66: the loop over the columns, with its break
RECURSIVE lp_accumulate(_, _, _, _, _, _, _, _)
lp_accumulate(o, Ml, Mq, i, q, isInt, j, acc) ==
  IF j >= Ml.E_actual THEN acc
  ELSE IF lp_col_missing(Ml, Mq, i, q, j) /\ o.missingdistance = 0
         THEN lp_missing(o, Ml)
         ELSE lp_accumulate(o, Ml, Mq, i, q, isInt, j + 1,
                            acc + lp_term(o, Ml, dist_ij(o, Ml, Mq, i, q, j), isInt))

\* dist_i when the loop over the columns has ended
dist_i(o, Ml, Mq, i, q, isInt) ==
  lp_accumulate(o, Ml, Mq, i, q, isInt, 0, lp_seed(o, Ml, Mq, i, q))

\* mutant of lp_keep: the MISSING_D total is not filtered out
lp_keep_missing_total(o, Ml, acc) == acc # 0

\* mutant of lp_keep: the zero total is not filtered out
lp_keep_zero_total(o, Ml, acc) == acc # lp_missing(o, Ml)

\* distances.cpp:68: the candidate survives
lp_keep(o, Ml, acc) == acc # 0 /\ acc # lp_missing(o, Ml)

\* distances.cpp:69-73: the value pushed to dists
lp_value(o, Ml, acc) == [num |-> acc, den |-> lp_den(o, Ml), root |-> ~IsMAE(o)]

\* distances.cpp:18-79
\* mutant of lp_distances: a kept index is appended behind the later ones,
\* its distance in front of them
RECURSIVE lp_distances_misordered(_, _, _, _, _, _)
lp_distances_misordered(q, o, Ml, Mq, cand, isInt) ==
  IF cand = <<>> THEN [inds |-> <<>>, dists |-> <<>>]
  ELSE LET i    == Head(cand)
           acc  == dist_i(o, Ml, Mq, i, q, isInt)
           rest == lp_distances_misordered(q, o, Ml, Mq, Tail(cand), isInt)
       IN IF lp_keep(o, Ml, acc)
            THEN [inds  |-> rest.inds \o <<i>>,
                  dists |-> <<lp_value(o, Ml, acc)>> \o rest.dists]
            ELSE rest

RECURSIVE lp_distances(_, _, _, _, _, _)
lp_distances(q, o, Ml, Mq, cand, isInt) ==
  IF cand = <<>> THEN [inds |-> <<>>, dists |-> <<>>]
  ELSE LET i    == Head(cand)
           acc  == dist_i(o, Ml, Mq, i, q, isInt)
           rest == lp_distances(q, o, Ml, Mq, Tail(cand), isInt)
       IN IF lp_keep(o, Ml, acc)
            THEN [inds  |-> <<i>> \o rest.inds,
                  dists |-> <<lp_value(o, Ml, acc)>> \o rest.dists]
            ELSE rest

(***************************************************************************)
(* Inputs of the L^p specification                                         *)
(***************************************************************************)
Cells == Values \cup {MISSING_D}
Metrics == {"Diff", "CheckSame"}

\* the L^p inputs have E_actual columns: E x-lags and nothing else
LpLags == {0, 1}
LpE == Cardinality(LpLags)

LpManifolds(n, panels) ==
  { [flat |-> f, panel_ids |-> p, nobs |-> n,
     E_x |-> LpE, E_dt |-> 0, E_extras |-> 0, E_lagged_extras |-> 0, E_actual |-> LpE] :
      f \in [1 .. n * LpE -> Cells], p \in [1 .. n -> panels] }

LpOptions ==
  { [distance |-> d, metrics |-> m, missingdistance |-> md, panelMode |-> pm, idw |-> w] :
      d \in {"Euclidean", "MeanAbsoluteError"},
      m \in [1 .. LpE -> Metrics],
      md \in 0 .. MaxMissingDistance,
      pm \in BOOLEAN,
      w \in {0, MaxIdw} }

InitLp ==
  /\ absIsInt \in BOOLEAN
  /\ pc = "lp_call"
  /\ opts \in LpOptions
  /\ M \in LpManifolds(Cardinality(LibRows), IF opts.panelMode THEN PanelIds ELSE {0})
  /\ Mp \in LpManifolds(1, {0})
  /\ Mp_i = 0
  /\ inpInds \in {<<0, 1>>, <<1, 0>>}
  /\ ret = Idle
  /\ host = Idle
  /\ loop = Idle
  /\ run = Idle
  /\ AuxIdle

LpCall ==
  /\ pc = "lp_call"
  /\ ret' = lp_distances(Mp_i, opts, M, Mp, inpInds, absIsInt)
  /\ pc' = "lp_done"
  /\ UNCHANGED <<opts, M, Mp, Mp_i, inpInds, absIsInt, host, loop, run, aux>>

NextLp == LpCall

SpecLp == InitLp /\ [][NextLp]_vars

(***************************************************************************)
(* Properties of lp_distances                                              *)
(***************************************************************************)
LpDone == pc = "lp_done"

Cols == 0 .. M.E_actual - 1

\* position p of the candidate list refers to library row Cand(p)
Cand(p) == inpInds[p]

Returned(i) == i \in Range(ret.inds)

\* some column of the pair (i, Mp_i) holds MISSING on either side
PairMissing(i) ==
  \E j \in Cols : MAt(M, i, j) = MISSING_D \/ MAt(Mp, Mp_i, j) = MISSING_D

NoMissingAnywhere ==
  /\ \A n \in DOMAIN M.flat : M.flat[n] # MISSING_D
  /\ \A n \in DOMAIN Mp.flat : Mp.flat[n] # MISSING_D

RowsEqual(i) == \A j \in Cols : MAt(M, i, j) = MAt(Mp, Mp_i, j)

OtherPanel(i) == panel(M, i) # panel(Mp, Mp_i)

\* the reference component d_ij of the specification, in units of 1/Scale
RefD(i, j) ==
  IF MAt(M, i, j) = MISSING_D \/ MAt(Mp, Mp_i, j) = MISSING_D
    THEN opts.missingdistance
    ELSE IF opts.metrics[j + 1] = "Diff"
           THEN MAt(M, i, j) - MAt(Mp, Mp_i, j)
           ELSE IF MAt(M, i, j) = MAt(Mp, Mp_i, j) THEN 0 ELSE Scale

RefPenalty(i) ==
  IF opts.panelMode /\ opts.idw > 0 /\ OtherPanel(i) THEN opts.idw ELSE 0

\* penalty + sum_j |d_ij| / E_actual, as a count of 1/(Scale * E_actual)
RefMAE(i) ==
  RefPenalty(i) * Scale * M.E_actual
    + SeqSum([n \in 1 .. M.E_actual |-> Abs(RefD(i, n - 1))])

\* penalty + sum_j d_ij^2, as a count of 1/Scale^2
RefSquares(i) ==
  RefPenalty(i) * Scale * Scale
    + SeqSum([n \in 1 .. M.E_actual |-> RefD(i, n - 1) * RefD(i, n - 1)])

RefValue(i) ==
  IF opts.distance = "MeanAbsoluteError"
    THEN [num |-> RefMAE(i), den |-> Scale * M.E_actual, root |-> FALSE]
    ELSE [num |-> RefSquares(i), den |-> Scale * Scale, root |-> TRUE]

\* the distance v is at least the whole number w >= 0
DistGE(v, w) ==
  IF v.root THEN v.num >= w * w * v.den ELSE v.num >= w * v.den

\* the square of the distance v is at least the whole number w >= 0
DistSqGE(v, w) ==
  IF v.root THEN v.num >= w * v.den ELSE v.num * v.num >= w * v.den * v.den

\* distance a is smaller than distance b (same reduction, same units)
DistLess(a, b) == a.num < b.num

\* C1: with missingdistance == 0, a candidate whose pair with the query has a
\* MISSING in some column, on either side, is absent from the returned indices.
C1_MissingPairDropped ==
  (LpDone /\ opts.missingdistance = 0) =>
    \A p \in DOMAIN inpInds : PairMissing(Cand(p)) => ~Returned(Cand(p))

\* C1 witness: missingdistance == 0, one candidate has a MISSING cell and is
\* dropped while the other candidate is returned.
C1_Witness ==
  /\ LpDone /\ opts.missingdistance = 0
  /\ Mp.flat[1] # MISSING_D /\ Mp.flat[2] # MISSING_D
  /\ \E p \in DOMAIN inpInds : PairMissing(Cand(p)) /\ ~Returned(Cand(p))
  /\ \E p \in DOMAIN inpInds : ~PairMissing(Cand(p)) /\ Returned(Cand(p))

\* C2: with missingdistance > 0 no pair is marked missing; every column with a
\* MISSING on one or both sides contributes the component missingdistance
\* whatever metric[j] is, and each column contributes once: under the Euclidean
\* reduction a candidate with a missing column is returned with
\* penalty + sum_j d_ij^2 under the square root.
C2_MissingContributes ==
  (LpDone /\ opts.missingdistance > 0) =>
    \A p \in DOMAIN inpInds :
      LET i == Cand(p) IN
        /\ dist_i(opts, M, Mp, i, Mp_i, absIsInt) # lp_missing(opts, M)
        /\ \A j \in Cols :
             (MAt(M, i, j) = MISSING_D \/ MAt(Mp, Mp_i, j) = MISSING_D)
               => dist_ij(opts, M, Mp, i, Mp_i, j) = opts.missingdistance
        /\ (PairMissing(i) /\ opts.distance = "Euclidean") =>
             \E n \in DOMAIN ret.inds :
               ret.inds[n] = i /\ ret.dists[n] = RefValue(i)

\* C2 witness: missingdistance > 0, a CheckSame column is MISSING on both
\* sides and the candidate is returned.
C2_Witness ==
  /\ LpDone /\ opts.missingdistance > 0
  /\ \E p \in DOMAIN inpInds : \E j \in Cols :
       /\ MAt(M, Cand(p), j) = MISSING_D /\ MAt(Mp, Mp_i, j) = MISSING_D
       /\ opts.metrics[j + 1] = "CheckSame"
       /\ Returned(Cand(p))

C4_OtherPanelFloorIdw ==
  (LpDone /\ opts.panelMode /\ opts.idw > 0) =>
    \A n \in DOMAIN ret.inds :
      OtherPanel(ret.inds[n]) => DistGE(ret.dists[n], opts.idw)

\* C4 (amended): in panel mode with idw > 0 a returned candidate of another
\* panel has distance >= idw under MeanAbsoluteError and squared distance
\* >= idw under Euclidean (distance >= sqrt(idw)); so a same-panel candidate
\* below that floor is ranked before every other-panel candidate.
C4_OtherPanelFloor ==
  (LpDone /\ opts.panelMode /\ opts.idw > 0) =>
    \A n \in DOMAIN ret.inds :
      OtherPanel(ret.inds[n]) =>
        /\ IF opts.distance = "MeanAbsoluteError"
             THEN DistGE(ret.dists[n], opts.idw)
             ELSE DistSqGE(ret.dists[n], opts.idw)
        /\ \A m \in DOMAIN ret.inds :
             ( /\ ~OtherPanel(ret.inds[m])
               /\ IF opts.distance = "MeanAbsoluteError"
                    THEN ~DistGE(ret.dists[m], opts.idw)
                    ELSE ~DistSqGE(ret.dists[m], opts.idw) )
               => DistLess(ret.dists[m], ret.dists[n])

\* C4 witness: panel mode, idw > 0, a same-panel and an other-panel candidate
\* are both returned.
C4_Witness ==
  /\ LpDone /\ opts.panelMode /\ opts.idw > 0
  /\ \E n \in DOMAIN ret.inds : OtherPanel(ret.inds[n])
  /\ \E m \in DOMAIN ret.inds : ~OtherPanel(ret.inds[m])

B2N(b) == IF b THEN 1 ELSE 0

\* ManifoldGenerator::E_dt(E)
gen_E_dt(g) == B2N(g.use_dt) * (g.E - 1 + B2N(g.add_dt0))

\* ManifoldGenerator::E_extras(E)
gen_E_extras(g) == g.num_extras + g.num_extras_lagged * (g.E - 1)

\* ManifoldGenerator::E_actual(E)
gen_E_actual(g) == g.E + gen_E_dt(g) + gen_E_extras(g)

\* the width of the lagged extras handed to the Manifold constructor
gen_E_lagged_extras(g) == g.num_extras_lagged * g.E

(***************************************************************************)
(* wasserstein_cost_matrix and wasserstein_distances                       *)
(* (distances.cpp:107-231, 282-310)                                        *)
(***************************************************************************)
\* Manifold::laggedObsMap: the number of rows of the view
numLaggedExtras(Man) == Man.E_lagged_extras \div Man.E_x

obs_rows(Man) == 1 + B2N(Man.E_dt > 0) + numLaggedExtras(Man)

\* Element (k, n) of laggedObsMap(i): the view is row-major with E_x columns
\* and starts at _flat[i * E_actual].  A read past the end of _flat is
\* undefined; it yields the indeterminate value stray.
laggedObsInd(Man, i, k, n) == i * Man.E_actual + k * Man.E_x + n

laggedObsMap(Man, i, k, n, stray) ==
  LET ind == laggedObsInd(Man, i, k, n)
  IN IF ind < Man.nobs * Man.E_actual THEN Man.flat[ind + 1] ELSE stray

\* Manifold::unlagged_extras(obsNum, varNum)
unlagged_extras(Man, i, e) ==
  Man.flat[i * Man.E_actual + Man.E_x + Man.E_dt + Man.E_lagged_extras + e + 1]

\* distances.cpp:124-125: (view == missing).colwise().any(), at column n
w_col_missing(Man, i, n, stray) ==
  \E k \in 0 .. obs_rows(Man) - 1 : laggedObsMap(Man, i, k, n, stray) = MISSING_D

\* distances.cpp:119
skipMissing(o) == o.missingdistance = 0

\* distances.cpp:124-125: M_i_missing (and Mp_j_missing), by column
w_missing(Man, i, stray) ==
  [n \in 0 .. Man.E_x - 1 |-> w_col_missing(Man, i, n, stray)]

\* distances.cpp:193-196, 200-203: the columns the loops do not skip, in order
w_kept(o, missing) ==
  SelectSeq([n \in 1 .. Cardinality(DOMAIN missing) |-> n - 1],
            LAMBDA c : ~(skipMissing(o) /\ missing[c]))

\* distances.cpp:127-134: len_i (and len_j)
w_len(o, missing) ==
  IF skipMissing(o)
    THEN Cardinality(DOMAIN missing) - Cardinality({n \in DOMAIN missing : missing[n]})
    ELSE Cardinality(DOMAIN missing)

\* distances.cpp:174, 211: abs(x - y) with the unqualified abs
w_abs(d, isInt) == IF isInt THEN (Abs(d) \div Scale) * Scale ELSE Abs(d)

\* distances.cpp:141-156: minData, maxData and maxTime of the view of row i.
\* maxData starts at numeric_limits<double>::min(), the smallest positive
\* double: isMin says it still holds that value.
RECURSIVE w_extent(_, _, _, _, _)
w_extent(Man, i, stray, t, acc) ==
  IF t >= Man.E_x THEN acc
  ELSE LET x  == laggedObsMap(Man, i, 0, t, stray)
           d  == laggedObsMap(Man, i, 1, t, stray)
           a1 == IF x # MISSING_D /\ (acc.minIsMax \/ x < acc.minData)
                   THEN [acc EXCEPT !.minIsMax = FALSE, !.minData = x] ELSE acc
           a2 == IF x # MISSING_D /\ (IF a1.maxIsMin THEN x > 0 ELSE x > a1.maxData)
                   THEN [a1 EXCEPT !.maxIsMin = FALSE, !.maxData = x] ELSE a1
           a3 == IF d # MISSING_D /\ d > a2.maxTime
                   THEN [a2 EXCEPT !.maxTime = d] ELSE a2
       IN w_extent(Man, i, stray, t + 1, a3)

\* distances.cpp:136-160: gamma, kept as the quantities it is computed from:
\* aspectRatio * (maxData - minData + epsilon) / (maxTime + epsilon)
w_gamma(o, Man, i, stray) ==
  IF Man.E_dt > 0
    THEN [one |-> FALSE, aspectRatio |-> o.aspectRatio,
          extent |-> w_extent(Man, i, stray, 0,
                        [minIsMax |-> TRUE, minData |-> 0,
                         maxIsMin |-> TRUE, maxData |-> 0, maxTime |-> 0])]
    ELSE [one |-> TRUE]

\* distances.cpp:158-159: the terms of gamma as the double arithmetic gives
\* them.  num is maxData - minData: a maxData still at the smallest positive
\* double is absorbed by the subtraction and by the added epsilon, so it
\* counts as 0; num is empty when no primary entry was seen (the difference
\* of the two sentinels).  den is maxTime.
gamma_terms(g) ==
  IF g.one THEN [one |-> TRUE]
  ELSE [one |-> FALSE, aspectRatio |-> g.aspectRatio,
        num |-> IF g.extent.minIsMax THEN {}
                ELSE {(IF g.extent.maxIsMin THEN 0 ELSE g.extent.maxData)
                        - g.extent.minData},
        den |-> g.extent.maxTime]

\* distances.cpp:164-185: the unlagged extras and the panel penalty, in units
\* of 1/Scale
\* distances.cpp:173: the tag that unlagged extra e is compared under,
\* opts.metrics[timeSeriesDim + e]
w_unlagged_metric(o, Ml, e) == o.metrics[obs_rows(Ml) + e + 1]

\* distances.cpp:210: the tag that dimension k of the view is compared under,
\* opts.metrics[k]
w_lagged_metric(o, k) == o.metrics[k + 1]

RECURSIVE w_unlagged(_, _, _, _, _, _, _)
w_unlagged(o, Ml, Mq, i, j, isInt, e) ==
  IF e >= Ml.E_extras - Ml.E_lagged_extras
    THEN IF o.panelMode /\ o.idw > 0
           THEN o.idw * Scale * B2N(panel(Ml, i) # panel(Mq, j))
           ELSE 0
    ELSE LET x == unlagged_extras(Ml, i, e)
             y == unlagged_extras(Mq, j, e)
             d == IF x = MISSING_D \/ y = MISSING_D
                    THEN o.missingdistance
                    ELSE IF w_unlagged_metric(o, Ml, e) = "Diff"
                           THEN w_abs(x - y, isInt)
                           ELSE Scale * B2N(x # y)
         IN d + w_unlagged(o, Ml, Mq, i, j, isInt, e + 1)

\* distances.cpp:204-215: the cost of dimension k between column nn of the
\* candidate's view and column mm of the query's view, before gamma
w_dim_cost(o, Ml, Mq, i, j, isInt, stray, eitherMissing, k, nn, mm) ==
  IF eitherMissing
    THEN o.missingdistance
    ELSE IF w_lagged_metric(o, k) = "Diff"
           THEN w_abs(laggedObsMap(Ml, i, k, nn, stray) - laggedObsMap(Mq, j, k, mm, stray), isInt)
           ELSE Scale * B2N(laggedObsMap(Ml, i, k, nn, stray) # laggedObsMap(Mq, j, k, mm, stray))

\* distances.cpp:187-229: the entry that the loops over k accumulate for the
\* pair of columns (nn, mm): base + gamma * dt, in units of 1/Scale
w_entry(o, Ml, Mq, i, j, isInt, stray, unlaggedDist, eitherMissing, nn, mm) ==
  LET isDt(k) == Ml.E_dt > 0 /\ k = 1
      cost(k) == w_dim_cost(o, Ml, Mq, i, j, isInt, stray, eitherMissing, k, nn, mm)
  IN [base |-> unlaggedDist
                 + SeqSum([n \in 1 .. obs_rows(Ml) |->
                             IF isDt(n - 1) THEN 0 ELSE cost(n - 1)]),
      dt   |-> IF Ml.E_dt > 0 THEN cost(1) ELSE 0]

\* distances.cpp:107-231: len_i, len_j and the len_i x len_j cost matrix
wasserstein_cost_matrix(Ml, Mq, i, j, o, isInt, stray) ==
  LET M_i_missing  == w_missing(Ml, i, stray)
      Mp_j_missing == w_missing(Mq, j, stray)
      unlaggedDist == w_unlagged(o, Ml, Mq, i, j, isInt, 0)
      ki == w_kept(o, M_i_missing)
      kj == w_kept(o, Mp_j_missing)
  IN [len_i |-> w_len(o, M_i_missing),
      len_j |-> w_len(o, Mp_j_missing),
      gamma |-> w_gamma(o, Ml, i, stray),
      C     |-> [a \in 1 .. Len(ki) |->
                   [b \in 1 .. Len(kj) |->
                      w_entry(o, Ml, Mq, i, j, isInt, stray, unlaggedDist,
                              M_i_missing[ki[a]] \/ Mp_j_missing[kj[b]], ki[a], kj[b])]]]

\* The transport solver called at distances.cpp:268-280: what the test at
\* distances.cpp:302 can find of its result.  The optimal cost of an all-zero
\* matrix is zero; pick is the outcome for any other matrix.
EmdOutcomes == {"zero", "normal", "notnormal"}

wasserstein(cm, pick) ==
  IF \A a \in DOMAIN cm.C : \A b \in DOMAIN cm.C[a] :
       cm.C[a][b].base = 0 /\ cm.C[a][b].dt = 0
    THEN "zero"
    ELSE pick

\* distances.cpp:294
w_solved(cm) == cm.len_i > 0 /\ cm.len_j > 0

\* distances.cpp:282-310; emd[p] is the outcome of the solver for the p-th
\* candidate.  calls records what wasserstein_cost_matrix returned.
RECURSIVE wasserstein_distances(_, _, _, _, _, _, _, _)
wasserstein_distances(q, o, Ml, Mq, cand, isInt, stray, emd) ==
  IF cand = <<>> THEN [inds |-> <<>>, dists |-> <<>>, calls |-> <<>>]
  ELSE LET i    == Head(cand)
           cm   == wasserstein_cost_matrix(Ml, Mq, i, q, o, isInt, stray)
           rest == wasserstein_distances(q, o, Ml, Mq, Tail(cand), isInt, stray, Tail(emd))
       IN IF w_solved(cm) /\ wasserstein(cm, Head(emd)) = "normal"
            THEN [inds  |-> <<i>> \o rest.inds,
                  dists |-> <<[emd |-> cm.C]>> \o rest.dists,
                  calls |-> <<cm>> \o rest.calls]
            ELSE [rest EXCEPT !.calls = <<cm>> \o rest.calls]

(***************************************************************************)
(* Inputs of the Wasserstein specification                                 *)
(***************************************************************************)
\* the embeddings: E lags, dt with and without dt0, an unlagged extra; nobs
\* and nqry are the numbers of rows of the library and of the query manifold
WGenerators ==
  { [E |-> 2, use_dt |-> FALSE, add_dt0 |-> FALSE, num_extras |-> 0, num_extras_lagged |-> 0, nobs |-> 2, nqry |-> 1],
    [E |-> 2, use_dt |-> TRUE,  add_dt0 |-> TRUE,  num_extras |-> 0, num_extras_lagged |-> 0, nobs |-> 1, nqry |-> 1],
    [E |-> 2, use_dt |-> TRUE,  add_dt0 |-> FALSE, num_extras |-> 0, num_extras_lagged |-> 0, nobs |-> 1, nqry |-> 2],
    [E |-> 2, use_dt |-> FALSE, add_dt0 |-> FALSE, num_extras |-> 1, num_extras_lagged |-> 0, nobs |-> 1, nqry |-> 1] }

\* the cells of the query row
QueryCells == {0, MISSING_D}

\* a negative value of the primary series, where a time scale is computed
NegativeValues == {0 - 1}

\* the cells of column c of a library row: the x lags of an embedding with dt
\* may be negative
WCells(g, cells, c) ==
  IF g.use_dt /\ c < g.E /\ cells = Cells THEN cells \cup NegativeValues ELSE cells

WManifolds(g, n, cells, panels) ==
  { [flat |-> f, panel_ids |-> p, nobs |-> n,
     E_x |-> g.E, E_dt |-> gen_E_dt(g), E_extras |-> gen_E_extras(g),
     E_lagged_extras |-> gen_E_lagged_extras(g), E_actual |-> gen_E_actual(g)] :
      f \in { h \in [1 .. n * gen_E_actual(g) -> cells \cup NegativeValues] :
                \A x \in DOMAIN h :
                  h[x] \in WCells(g, cells, (x - 1) % gen_E_actual(g)) },
      p \in [1 .. n -> panels] }

\* the tag of column c (from 1) of the layout: mx for the x lags, Diff for
\* the dt lags, me for the extras
WMetrics(g, mx, me) ==
  [c \in 1 .. gen_E_actual(g) |->
     IF c <= g.E THEN mx
     ELSE IF c <= g.E + gen_E_dt(g) THEN "Diff"
     ELSE me]

WOptions(g) ==
  { [distance |-> "Wasserstein", metrics |-> WMetrics(g, mx, me),
     missingdistance |-> md, panelMode |-> pm, idw |-> MaxIdw, aspectRatio |-> 1] :
      mx \in Metrics, me \in Metrics, md \in 0 .. MaxMissingDistance, pm \in BOOLEAN }

InitW ==
  /\ absIsInt \in BOOLEAN
  /\ pc = "w_call"
  /\ \E g \in WGenerators :
       /\ opts \in WOptions(g)
       /\ M \in WManifolds(g, g.nobs, Cells, IF opts.panelMode THEN PanelIds ELSE {0})
       /\ Mp \in WManifolds(g, g.nqry, QueryCells, {0})
       /\ inpInds = [n \in 1 .. g.nobs |-> n - 1]
  /\ Mp_i = 0
  /\ ret = Idle
  /\ host = Idle
  /\ loop = Idle
  /\ run = Idle
  /\ AuxIdle

WCall ==
  /\ pc = "w_call"
  /\ \E stray \in Cells : \E emd \in [1 .. Len(inpInds) -> EmdOutcomes] :
       /\ ret' = wasserstein_distances(Mp_i, opts, M, Mp, inpInds, absIsInt, stray, emd)
  /\ pc' = "w_done"
  /\ UNCHANGED <<opts, M, Mp, Mp_i, inpInds, absIsInt, host, loop, run, aux>>

NextW == WCall

SpecW == InitW /\ [][NextW]_vars

(***************************************************************************)
(* Properties of the Wasserstein path                                      *)
(***************************************************************************)
WDone == pc = "w_done"

\* The lagged block of row i holds a MISSING at lag position n: in the x
\* lags, in the dt lag of that position (without dt0 the first lag has no
\* dt entry), or in a lagged extra.
BlockMissing(Man, i, n) ==
  \/ MAt(Man, i, n) = MISSING_D
  \/ /\ Man.E_dt > 0
     /\ n >= Man.E_x - Man.E_dt
     /\ MAt(Man, i, Man.E_x + n - (Man.E_x - Man.E_dt)) = MISSING_D
  \/ \E r \in 0 .. (Man.E_lagged_extras \div Man.E_x) - 1 :
       MAt(Man, i, Man.E_x + Man.E_dt + r * Man.E_x + n) = MISSING_D

\* the lag positions of the block that stay in the cost matrix, in order
BlockKept(Man, i) ==
  SelectSeq([n \in 1 .. Man.E_x |-> n - 1],
            LAMBDA c : opts.missingdistance > 0 \/ ~BlockMissing(Man, i, c))

CompressedAt(p) ==
  LET i  == inpInds[p]
      cm == ret.calls[p]
      ki == BlockKept(M, i)
      kj == BlockKept(Mp, Mp_i)
  IN /\ cm.len_i = Len(ki)
     /\ cm.len_j = Len(kj)
     /\ opts.missingdistance > 0 => cm.len_i = M.E_x /\ cm.len_j = Mp.E_x
     /\ Len(cm.C) = cm.len_i
     /\ \A a \in 1 .. Len(cm.C) : Len(cm.C[a]) = cm.len_j
     /\ opts.missingdistance = 0 =>
          \A a \in 1 .. Len(cm.C) : \A b \in 1 .. Len(cm.C[a]) :
            \E stray \in Cells :
              cm.C[a][b] = w_entry(opts, M, Mp, i, Mp_i, absIsInt, stray,
                                   w_unlagged(opts, M, Mp, i, Mp_i, absIsInt, 0),
                                   FALSE, ki[a], kj[b])
     /\ (cm.len_i = 0 \/ cm.len_j = 0) => i \notin Range(ret.inds)

\* C6: the cost matrix of every candidate is len_i x len_j, where without a
\* missing distance len_i and len_j count the lag positions of the candidate's
\* and the query's block that hold no MISSING and the entries are those of
\* the pairs of such positions in their order, and with a missing distance
\* len_i = len_j = E; a candidate with len_i = 0 or len_j = 0 is not returned.
C6_CompressedCostMatrix ==
  WDone => \A p \in 1 .. Len(inpInds) : CompressedAt(p)

\* The same statement where the lagged block is rectangular: no dt lags, or
\* as many dt lags as x lags.
W_RectangularCompression ==
  (WDone /\ M.E_dt \in {0, M.E_x}) => \A p \in 1 .. Len(inpInds) : CompressedAt(p)

\* a rectangular block that lost a lag position, and one that lost them all
W_RectangularCompressed ==
  /\ WDone /\ M.E_dt = M.E_x /\ opts.missingdistance = 0
  /\ ret.calls[1].len_i = 1 /\ ret.calls[1].len_j = 2 /\ ret.inds = <<0>>

W_RectangularSkipped ==
  /\ WDone /\ M.E_dt = 0 /\ opts.missingdistance = 0
  /\ ret.calls[1].len_i = 0 /\ ret.calls[1].len_j = 2

(***************************************************************************)
(* The host entrypoint edm (stata.cpp:353-590)                             *)
(***************************************************************************)
MaxCores == 2
MaxK == 2
MaxMani == 2

ThetaValues == {0, 1}
ThetaLists == {<<a>> : a \in ThetaValues} \cup {<<a, b>> : a, b \in ThetaValues}
Argcs == {1} \cup (10 .. 13)

\* stata.cpp:402-404
default_k(k, mani) == IF k <= 0 THEN mani + 1 ELSE k

\* stata.cpp:408-410
default_nthreads(nthreads, npcores) == IF nthreads <= 0 THEN npcores ELSE nthreads

\* mutant of restrict_nthreads: the requested count is not restricted
restrict_nthreads_none(nthreads, nlcores) == nthreads

\* stata.cpp:414-417
restrict_nthreads(nthreads, nlcores) == IF nthreads > nlcores THEN nlcores ELSE nthreads

\* mutant of edm_thetas: the whole numlist stays in opts.thetas
edm_thetas_all(numlist, theta) == numlist

\* stata.cpp:364 and 574-575: opts.thetas is read from the numlist "theta",
\* then cleared and given the one theta of argv[0]
edm_thetas(numlist, theta) == <<theta>>

\* stata.cpp:355
too_few(argc) == argc < 11

\* mutant of too_many: the bound on argc is one too large
too_many_13(argc) == argc > 13

\* stata.cpp:358
too_many(argc) == argc > 12

\* The whole of edm, as stata_call runs it (stata.cpp:626-643): a holds argc,
\* the numbers read from argv and from the host's macros, and whether a read
\* of the host's data throws.  predictions is the future of the launched run;
\* dataRead and rngDrawn record that the host's macros and columns were read
\* (stata.cpp:364-449) and that rng was seeded and drawn from (stata.cpp:453-463).
edm(h, a) ==
  IF too_few(a.argc) THEN [h EXCEPT !.call = a, !.rc = "TOO_FEW_VARIABLES"]
  ELSE IF too_many(a.argc) THEN [h EXCEPT !.call = a, !.rc = "TOO_MANY_VARIABLES"]
  ELSE IF a.readThrows THEN [h EXCEPT !.call = a, !.rc = "UNKNOWN_ERROR", !.dataRead = TRUE]
  ELSE [h EXCEPT !.call = a, !.rc = "SUCCESS", !.dataRead = TRUE, !.rngDrawn = TRUE,
                 !.predictions =
                    [opts |-> [k        |-> default_k(a.k, a.mani),
                               nthreads |-> restrict_nthreads(
                                              default_nthreads(a.nthreads, h.npcores), h.nlcores),
                               thetas   |-> edm_thetas(a.numlist, a.theta)]]]

\* argv[0] is the theta of the list that the caller is at (stata.cpp:338-351)
EdmArgs ==
  { a \in [argc : Argcs, theta : ThetaValues, numlist : ThetaLists, k : -1 .. MaxK,
           mani : 1 .. MaxMani, nthreads : -1 .. MaxCores + 1, readThrows : BOOLEAN] :
      a.theta \in Range(a.numlist) }

\* a run launched by an earlier call and not yet retrieved
PriorRun == [opts |-> [k |-> 1, nthreads |-> 1, thetas |-> <<0>>]]

InitHost ==
  /\ pc = "host_ready"
  /\ host \in [npcores : 0 .. MaxCores, nlcores : 0 .. MaxCores,
               call : {Idle}, rc : {"none"}, predictions : {Idle, PriorRun},
               edm_running : {0, 1}, dataRead : {FALSE}, rngDrawn : {FALSE}]
  /\ opts = Idle /\ M = Idle /\ Mp = Idle /\ Mp_i = 0 /\ inpInds = <<>>
  /\ absIsInt = FALSE /\ ret = Idle /\ loop = Idle /\ run = Idle
  /\ AuxIdle

Edm ==
  /\ pc = "host_ready"
  /\ \E a \in EdmArgs : host' = edm(host, a)
  /\ pc' = "host_returned"
  /\ UNCHANGED <<opts, M, Mp, Mp_i, inpInds, absIsInt, ret, loop, run, aux>>

NextHost == Edm

SpecHost == InitHost /\ [][NextHost]_vars

(***************************************************************************)
(* Properties of the host entrypoint                                       *)
(***************************************************************************)
HostLaunched == pc = "host_returned" /\ host.rc = "SUCCESS"

Min(a, b) == IF a < b THEN a ELSE b

\* C7: after option parsing the number of worker threads is
\* min(r, logical cores), where r is the requested count if it is positive and
\* the number of physical cores otherwise; so it lies in 1 .. logical cores
\* whenever 1 <= physical cores <= logical cores.
C7_ThreadCount ==
  HostLaunched =>
    LET r == IF host.call.nthreads > 0 THEN host.call.nthreads ELSE host.npcores
        n == host.predictions.opts.nthreads
    IN /\ n = Min(r, host.nlcores)
       /\ (1 <= host.npcores /\ host.npcores <= host.nlcores) =>
            (1 <= n /\ n <= host.nlcores)

\* more threads requested than there are logical cores
C7_Witness ==
  /\ HostLaunched
  /\ 1 <= host.npcores /\ host.npcores <= host.nlcores
  /\ host.call.nthreads > host.nlcores
  /\ host.predictions.opts.nthreads = host.nlcores

\* C8: a negative k of the caller reaches the predictor still negative (use
\* every surviving candidate); only k = 0 is replaced by E_actual + 1.
C8_NegativeKReachesPredictor ==
  HostLaunched =>
    /\ host.call.k < 0 => host.predictions.opts.k < 0
    /\ host.call.k = 0 => host.predictions.opts.k = host.call.mani + 1
    /\ host.call.k > 0 => host.predictions.opts.k = host.call.k

\* C9: the run is started with options.thetas equal to the caller's theta
\* list, so the result has one row per theta of that list.
C9_ThetaListReachesPredictor ==
  HostLaunched => host.predictions.opts.thetas = host.call.numlist

(***************************************************************************)
(* The driver loops mf_smap_loop_openmp and mf_smap_loop_cpp17_seq         *)
(* (benchmark.cpp:656-686, 714-742)                                        *)
(***************************************************************************)
MaxRows == 3

\* the return codes of mf_smap_single, and their order
Retcodes == {"SUCCESS", "INSUFFICIENT_UNIQUE", "INVALID_ALGORITHM", "NOT_IMPLEMENTED", "UNKNOWN_ERROR"}

Severity ==
  [c \in Retcodes |->
     CASE c = "SUCCESS" -> 0
       [] c = "INSUFFICIENT_UNIQUE" -> 1
       [] c = "INVALID_ALGORITHM" -> 2
       [] c = "NOT_IMPLEMENTED" -> 3
       [] c = "UNKNOWN_ERROR" -> 4]

\* *std::max_element(rc.begin(), rc.end()) for a non-empty rc
max_element(rc) ==
  CHOOSE c \in Range(rc) : \A d \in Range(rc) : Severity[d] <= Severity[c]

\* benchmark.cpp:683, 739.  For an empty rc, max_element returns rc.end() and
\* the dereference is undefined: the loop ends with any value as its code, a
\* return code or not, or does not return.
MaxErrorOutcomes(rc) ==
  IF Len(rc) > 0 THEN {max_element(rc)} ELSE Retcodes \cup {"indeterminate", "crash"}

LoopPolicies == {"openmp", "cpp17_seq"}

InitLoop ==
  /\ pc = "loop_run"
  /\ \E rows \in 0 .. MaxRows, policy \in LoopPolicies :
       loop = [policy |-> policy, rows |-> rows, rc |-> [i \in 1 .. rows |-> "unset"],
               maxError |-> "none"]
  /\ opts = Idle /\ M = Idle /\ Mp = Idle /\ Mp_i = 0 /\ inpInds = <<>>
  /\ absIsInt = FALSE /\ ret = Idle /\ host = Idle /\ run = Idle
  /\ AuxIdle

\* benchmark.cpp:678-681, 735-736: rc[i] = mf_smap_single(i, ...); the rows
\* in any order under OpenMP, in order under std::execution::seq
LoopSingle ==
  /\ pc = "loop_run"
  /\ \E i \in 1 .. loop.rows, r \in Retcodes :
       /\ loop.rc[i] = "unset"
       /\ loop.policy = "cpp17_seq" => \A j \in 1 .. i - 1 : loop.rc[j] # "unset"
       /\ loop' = [loop EXCEPT !.rc[i] = r]
  /\ UNCHANGED <<pc, opts, M, Mp, Mp_i, inpInds, absIsInt, ret, host, run, aux>>

\* benchmark.cpp:683-685, 739-741
LoopReduce ==
  /\ pc = "loop_run"
  /\ \A i \in 1 .. loop.rows : loop.rc[i] # "unset"
  /\ \E e \in MaxErrorOutcomes(loop.rc) :
       /\ loop' = [loop EXCEPT !.maxError = e]
       /\ pc' = IF e = "crash" THEN "loop_crashed" ELSE "loop_returned"
  /\ UNCHANGED <<opts, M, Mp, Mp_i, inpInds, absIsInt, ret, host, run, aux>>

NextLoop == LoopSingle \/ LoopReduce

SpecLoop == InitLoop /\ [][NextLoop]_vars

(***************************************************************************)
(* Properties of the driver loop                                           *)
(***************************************************************************)
LoopEnded == pc \in {"loop_returned", "loop_crashed"}

\* C10: for any number of query rows, zero included, the loop ends with a
\* defined return code, and with at least one row that code is the maximum
\* of the rows' codes in the order SUCCESS < INSUFFICIENT_UNIQUE <
\* INVALID_ALGORITHM < NOT_IMPLEMENTED < UNKNOWN_ERROR.
C10_DefinedWorstCode ==
  LoopEnded =>
    /\ pc = "loop_returned"
    /\ loop.maxError \in Retcodes
    /\ loop.rows >= 1 =>
         /\ loop.maxError \in Range(loop.rc)
         /\ \A i \in 1 .. loop.rows : Severity[loop.rc[i]] <= Severity[loop.maxError]

\* the same statement for the runs with at least one query row
Loop_WorstCodeOfRows ==
  (LoopEnded /\ loop.rows >= 1) =>
    /\ pc = "loop_returned"
    /\ loop.maxError \in Range(loop.rc)
    /\ \A i \in 1 .. loop.rows : Severity[loop.rc[i]] <= Severity[loop.maxError]

(***************************************************************************)
(* The asynchronous run: launch (stata.cpp:586-587), the cancellation      *)
(* probe keep_going and the callback finished (stata.cpp:67-77), the       *)
(* per-query tasks and the reduction (benchmark.cpp:663-685, 768-788) and  *)
(* the retrieval save_results (stata.cpp:592-624).  The driver's probing   *)
(* and the writes of a task are those the specification describes.         *)
(***************************************************************************)
MaxQueries == 2

RunThetas == {0, 1}          \* the indices of options.thetas
CoeffCols == {0, 1}          \* the columns of a coefficient row
TaskCodes == {"SUCCESS", "INSUFFICIENT_UNIQUE", "UNKNOWN_ERROR"}

\* mutant of keep_going: the probe does not look at edm_running
keep_going_always(h) == TRUE

\* stata.cpp:67-72
keep_going(h) == h.edm_running # 0

\* stata.cpp:74-77
finished(h) == [h EXCEPT !.edm_running = 0]

\* mutant of slot: every task writes the cells of query 0
slot_first(q) == 0

\* benchmark.cpp:680, 783-784: task i writes rc[i] (and, in mf_smap_single,
\* ystar[i] and row i of the coefficients)
slot(q) == q

\* mutant of future_ready: the result is read without waiting for the run
future_ready_always(r) == TRUE

\* stata.cpp:594: predictions.get() returns once the run has returned
future_ready(r) == r.status = "done"

\* the steps of a task within one theta: rc, ystar, then the coefficients
StepRc == 0
StepYstar == 1
LastStep == 1 + Cardinality(CoeffCols)

Queries(r) == 0 .. r.n - 1

NewTask == [st |-> "pending", t |-> 0, k |-> 0, probed |-> FALSE]

\* stata.cpp:586-587 and benchmark.cpp:663-674: the outputs are allocated
\* zero-initialised, one slot per query
NewRun(n) ==
  [status |-> "running", n |-> n, next |-> 0, stopSeen |-> FALSE, probedCleared |-> FALSE,
   tasks  |-> [q \in 0 .. n - 1 |-> NewTask],
   rc     |-> [t \in RunThetas |-> [q \in 0 .. n - 1 |-> "unset"]],
   ystar  |-> [t \in RunThetas |-> [q \in 0 .. n - 1 |-> "zero"]],
   coeffs |-> [t \in RunThetas |-> [q \in 0 .. n - 1 |-> [c \in CoeffCols |-> "zero"]]],
   writes |-> {},
   worst_rc |-> "none"]

\* the worst of the codes written, as benchmark.cpp:683 reduces them
RunCodes(r) == {r.rc[t][q] : t \in RunThetas, q \in Queries(r)} \ {"unset"}

run_worst(r) ==
  IF r.stopSeen THEN "CANCELLED"
  ELSE IF RunCodes(r) = {} THEN "SUCCESS"
  ELSE CHOOSE c \in RunCodes(r) : \A d \in RunCodes(r) : Severity[d] <= Severity[c]

InitRun ==
  /\ pc = "run_launched"
  /\ host = [edm_running |-> 1, rc |-> "none", pred |-> Idle, written |-> FALSE]
  /\ \E n \in 1 .. MaxQueries : run = NewRun(n)
  /\ opts = Idle /\ M = Idle /\ Mp = Idle /\ Mp_i = 0 /\ inpInds = <<>>
  /\ absIsInt = FALSE /\ ret = Idle /\ loop = Idle
  /\ AuxIdle

\* the host clears edm_running while the run is in progress
HostStop ==
  /\ pc = "run_launched" /\ run.status = "running"
  /\ host.edm_running # 0
  /\ host' = [host EXCEPT !.edm_running = 0]
  /\ UNCHANGED <<pc, opts, M, Mp, Mp_i, inpInds, absIsInt, ret, loop, run, aux>>

\* the driver, between tasks: probe, then start the next task or abandon the
\* outstanding ones
RunDriver ==
  /\ run.status = "running" /\ run.next < run.n
  /\ IF keep_going(host)
       THEN run' = [run EXCEPT !.tasks[run.next].st = "active", !.next = run.next + 1,
                               !.probedCleared = run.probedCleared \/ host.edm_running = 0]
       ELSE run' = [run EXCEPT !.stopSeen = TRUE, !.next = run.n,
                               !.probedCleared = TRUE,
                               !.tasks = [q \in Queries(run) |->
                                            IF run.tasks[q].st = "pending"
                                              THEN [run.tasks[q] EXCEPT !.st = "abandoned"]
                                              ELSE run.tasks[q]]]
  /\ UNCHANGED <<pc, opts, M, Mp, Mp_i, inpInds, absIsInt, ret, host, loop, aux>>

\* one step of the task of query q: the probe between thetas, or one write
TaskStep(q) ==
  /\ run.status = "running" /\ q \in Queries(run)
  /\ run.tasks[q].st = "active"
  /\ LET tk == run.tasks[q]
         s  == slot(q)
         nx == IF tk.k < LastStep THEN [tk EXCEPT !.k = tk.k + 1]
               ELSE IF tk.t + 1 \in RunThetas THEN [tk EXCEPT !.t = tk.t + 1, !.k = 0]
               ELSE [tk EXCEPT !.st = "finished"]
     IN IF tk.k = StepRc /\ tk.t > 0 /\ ~run.tasks[q].probed
          THEN \* between thetas: probe
               IF keep_going(host)
                 THEN run' = [run EXCEPT !.tasks[q].probed = TRUE,
                                 !.probedCleared = run.probedCleared \/ host.edm_running = 0]
                 ELSE run' = [run EXCEPT !.tasks[q].st = "stopped", !.stopSeen = TRUE,
                                 !.probedCleared = TRUE]
          ELSE IF tk.k = StepRc
            THEN \E c \in TaskCodes :
                   run' = [run EXCEPT !.rc[tk.t][s] = c, !.tasks[q] = [nx EXCEPT !.probed = FALSE],
                                      !.writes = run.writes \cup {<<q, "rc", tk.t, s>>}]
          ELSE IF tk.k = StepYstar
            THEN run' = [run EXCEPT !.ystar[tk.t][s] = "y", !.tasks[q] = nx,
                                    !.writes = run.writes \cup {<<q, "ystar", tk.t, s>>}]
          ELSE run' = [run EXCEPT !.coeffs[tk.t][s][tk.k - 2] = "b", !.tasks[q] = nx,
                                  !.writes = run.writes \cup {<<q, "coeffs", tk.t, s>>}]
  /\ UNCHANGED <<pc, opts, M, Mp, Mp_i, inpInds, absIsInt, ret, host, loop, aux>>

\* benchmark.cpp:682-685 after the barrier, and the callback finished
RunReduce ==
  /\ run.status = "running" /\ run.next = run.n
  /\ \A q \in Queries(run) : run.tasks[q].st \in {"finished", "abandoned", "stopped"}
  /\ run' = [run EXCEPT !.worst_rc = run_worst(run), !.status = "done"]
  /\ host' = finished(host)
  /\ UNCHANGED <<pc, opts, M, Mp, Mp_i, inpInds, absIsInt, ret, loop, aux>>

\* stata.cpp:592-624, called by stata_call with argc = 0
SaveResults ==
  /\ pc = "run_launched"
  /\ future_ready(run)
  /\ LET pred == [rc |-> run.worst_rc, ystar |-> run.ystar, coeffs |-> run.coeffs]
     IN host' = [finished(host) EXCEPT !.pred = pred, !.rc = pred.rc,
                                       !.written = (pred.rc = "SUCCESS")]
  /\ pc' = "run_retrieved"
  /\ UNCHANGED <<opts, M, Mp, Mp_i, inpInds, absIsInt, ret, loop, run, aux>>

NextRun ==
  \/ HostStop
  \/ RunDriver
  \/ \E q \in 0 .. MaxQueries - 1 : TaskStep(q)
  \/ RunReduce
  \/ SaveResults

SpecRun == InitRun /\ [][NextRun]_vars

\* the threads of the run keep running
SpecRunFair ==
  /\ SpecRun
  /\ WF_vars(RunDriver)
  /\ \A q \in 0 .. MaxQueries - 1 : WF_vars(TaskStep(q))
  /\ WF_vars(RunReduce)

(***************************************************************************)
(* Properties of the asynchronous run                                      *)
(***************************************************************************)
RunRetrieved == pc = "run_retrieved"

RowUntouched(row) == \A c \in CoeffCols : row[c] = "zero"
RowFitted(row) == \A c \in CoeffCols : row[c] = "b"

\* C12: in the result that is returned, cancelled or not, every coefficient
\* row coeffs[theta, q, :] is either entirely zero-initialised or entirely
\* fitted; no interleaving of the workers with the clearing of the flag
\* leaves a partially written row in it.
C12_RowsAllOrNothing ==
  RunRetrieved =>
    \A t \in RunThetas : \A q \in Queries(run) :
      RowUntouched(host.pred.coeffs[t][q]) \/ RowFitted(host.pred.coeffs[t][q])

\* a cancelled run whose result holds a fitted row and, for a task that
\* stopped between two thetas, an untouched row of the same query
C12_Witness ==
  /\ RunRetrieved /\ host.rc = "CANCELLED"
  /\ \E q \in Queries(run) :
       /\ run.tasks[q].st = "stopped"
       /\ RowFitted(host.pred.coeffs[0][q])
       /\ RowUntouched(host.pred.coeffs[1][q])

\* the tasks that wrote into a cell
Writers(kind, t, s) == {w[1] : w \in {x \in run.writes : x[2] = kind /\ x[3] = t /\ x[4] = s}}

\* C13: in every interleaving of the tasks, a cell ystar[theta, q],
\* rc[theta, q] or coeffs[theta, q, :] is written only by the task of query
\* q, so no two tasks write the same cell, and when the driver has made its
\* reduction no task is still writing.
C13_OwnedSlices ==
  /\ \A w \in run.writes : w[4] = w[1]
  /\ \A kind \in {"rc", "ystar", "coeffs"} : \A t \in RunThetas : \A s \in Queries(run) :
       Cardinality(Writers(kind, t, s)) <= 1
  /\ run.status = "done" =>
       \A q \in Queries(run) : run.tasks[q].st # "active"

\* two tasks in the middle of their writes at the same time
C13_Witness ==
  /\ run.n >= 2
  /\ run.tasks[0].st = "active" /\ run.tasks[0].k > StepYstar
  /\ run.tasks[1].st = "active" /\ run.tasks[1].k > StepYstar
  /\ <<0, "coeffs", 0, 0>> \in run.writes
  /\ <<1, "coeffs", 0, 1>> \in run.writes

\* C14: a call of edm with a wrong number of arguments returns
\* TOO_FEW_VARIABLES (1 <= argc < 11) or TOO_MANY_VARIABLES (argc > 12) before
\* any work: no host data is read, no random number is drawn, no run is
\* launched, and the pending future and edm_running are unchanged.
C14_WrongArgcAborts ==
  [][ (pc' = "host_returned" /\ (host'.call.argc < 11 \/ host'.call.argc > 12)) =>
        /\ host'.call.argc >= 1 /\ host'.call.argc < 11 => host'.rc = "TOO_FEW_VARIABLES"
        /\ host'.call.argc > 12 => host'.rc = "TOO_MANY_VARIABLES"
        /\ ~host'.dataRead /\ ~host'.rngDrawn
        /\ host'.predictions = host.predictions
        /\ host'.edm_running = host.edm_running ]_vars

\* a call with 13 arguments while an earlier run is pending
C14_Witness ==
  /\ pc = "host_returned" /\ host.call.argc = 13
  /\ host.rc = "TOO_MANY_VARIABLES" /\ host.predictions = PriorRun

(***************************************************************************)
(* Both distance paths                                                     *)
(***************************************************************************)
InitDist == InitLp \/ InitW

NextDist == LpCall \/ WCall

SpecDist == InitDist /\ [][NextDist]_vars

DistDone == pc \in {"lp_done", "w_done"}

\* the increasing maps of the positions of a into the positions of b
Embeddings(a, b) ==
  { f \in [DOMAIN a -> DOMAIN b] :
      /\ \A n \in DOMAIN a : b[f[n]] = a[n]
      /\ \A n, m \in DOMAIN a : n < m => f[n] < f[m] }

\* the distance the path computes for the candidate at position p of the
\* input list
DistOfCandidate(p) ==
  IF pc = "lp_done"
    THEN lp_value(opts, M, dist_i(opts, M, Mp, inpInds[p], Mp_i, absIsInt))
    ELSE [emd |-> ret.calls[p].C]

\* C15: lp_distances and wasserstein_distances return an index sequence and
\* a distance sequence of equal length, the indices are a subsequence of the
\* candidate list, position p of the distances is the distance of position p
\* of the indices, and the manifolds and the options are not modified.
C15_ParallelSubsequence ==
  /\ [](DistDone =>
          /\ Len(ret.inds) = Len(ret.dists)
          /\ \E f \in Embeddings(ret.inds, inpInds) :
               \A n \in DOMAIN ret.inds : ret.dists[n] = DistOfCandidate(f[n]))
  /\ [][M' = M /\ Mp' = Mp /\ opts' = opts /\ inpInds' = inpInds]_vars

\* the first candidate is dropped and the second returned, on either path
C15_WitnessLp ==
  /\ pc = "lp_done" /\ Len(inpInds) = 2 /\ ret.inds = <<inpInds[2]>>

C15_Witness ==
  /\ pc = "w_done" /\ Len(inpInds) = 2 /\ ret.inds = <<inpInds[2]>>

\* The cost of one dimension as the sum of per-dimension costs has it: the
\* missing distance only where one of the two values is MISSING.
PerDimensionCost(a, b, k) ==
  IF a = MISSING_D \/ b = MISSING_D THEN opts.missingdistance
  ELSE IF w_lagged_metric(opts, k) = "Diff" THEN Abs(a - b)
  ELSE Scale * B2N(a # b)

PerDimensionEntry(i, stray, nn, mm) ==
  LET cost(k) == PerDimensionCost(laggedObsMap(M, i, k, nn, stray),
                                  laggedObsMap(Mp, Mp_i, k, mm, stray), k)
      isDt(k) == M.E_dt > 0 /\ k = 1
  IN [base |-> w_unlagged(opts, M, Mp, i, Mp_i, absIsInt, 0)
                 + SeqSum([n \in 1 .. obs_rows(M) |-> IF isDt(n - 1) THEN 0 ELSE cost(n - 1)]),
      dt   |-> IF M.E_dt > 0 THEN cost(1) ELSE 0]

\* C16: with a missing distance, entry (n, m) of the cost matrix is the
\* unlagged floor plus the sum over the dimensions k of the cost between
\* A[k, n] and B[k, m]: the missing distance if one of the two is MISSING,
\* otherwise |A[k, n] - B[k, m]| or [A[k, n] # B[k, m]], the dt dimension
\* alone scaled by gamma.
C16_PerDimensionMissing ==
  (WDone /\ opts.missingdistance > 0) =>
    \A p \in 1 .. Len(inpInds) :
      \E stray \in Cells :
        \A nn, mm \in 0 .. M.E_x - 1 :
          ret.calls[p].C[nn + 1][mm + 1] = PerDimensionEntry(inpInds[p], stray, nn, mm)

\* the same statement for the pairs of columns that hold no MISSING, with the
\* exact absolute value
W_EntryOfPresentColumns ==
  (WDone /\ opts.missingdistance > 0 /\ ~absIsInt) =>
    \A p \in 1 .. Len(inpInds) :
      \E stray \in Cells :
        \A nn, mm \in 0 .. M.E_x - 1 :
          (~w_col_missing(M, inpInds[p], nn, stray) /\ ~w_col_missing(Mp, Mp_i, mm, stray)) =>
            ret.calls[p].C[nn + 1][mm + 1] = PerDimensionEntry(inpInds[p], stray, nn, mm)

(***************************************************************************)
(* The time scale gamma of the Wasserstein cost                            *)
(***************************************************************************)
SetMax(S) == CHOOSE x \in S : \A y \in S : y <= x

SetMin(S) == CHOOSE x \in S : \A y \in S : x <= y

\* the non-MISSING x lags and dt lags of row i
BlockX(Man, i) == {MAt(Man, i, n) : n \in 0 .. Man.E_x - 1} \ {MISSING_D}

BlockT(Man, i) ==
  {MAt(Man, i, Man.E_x + n) : n \in 0 .. Man.E_dt - 1} \ {MISSING_D}

\* aspect_ratio * (max_x - min_x + eps) / (max_t + eps) of the block of row i,
\* by its terms
BlockGamma(Man, i) ==
  [one |-> FALSE, aspectRatio |-> opts.aspectRatio,
   num |-> IF BlockX(Man, i) = {} THEN {}
           ELSE {SetMax(BlockX(Man, i)) - SetMin(BlockX(Man, i))},
   den |-> SetMax(BlockT(Man, i) \cup {0})]

\* C17: with dt lags, the cost matrix of every candidate of a query is built
\* with the gamma of the query's lagged block: the same for all candidates,
\* whatever the candidate's values.
C17_GammaOfQuery ==
  (WDone /\ M.E_dt > 0) =>
     \A p \in 1 .. Len(inpInds) :
        gamma_terms(ret.calls[p].gamma) = BlockGamma(Mp, Mp_i)

\* The gamma of a call is that of the candidate's block, where the block is
\* rectangular and its largest primary value is not negative.
W_GammaOfCandidate ==
  (WDone /\ M.E_dt = M.E_x) =>
     \A p \in 1 .. Len(inpInds) :
        (BlockX(M, inpInds[p]) = {} \/ SetMax(BlockX(M, inpInds[p])) >= 0) =>
           gamma_terms(ret.calls[p].gamma) = BlockGamma(M, inpInds[p])

\* C18: for the block that gamma is computed from, with at least one
\* non-MISSING primary entry, max_x - min_x is the difference of the true
\* maximum and minimum of the non-MISSING primary entries, also when they are
\* all negative, and max_t the true maximum of the non-MISSING dt entries;
\* the difference is not negative.
C18_TrueExtent ==
  (WDone /\ M.E_dt = M.E_x) =>
     \A p \in 1 .. Len(inpInds) :
        BlockX(M, inpInds[p]) # {} =>
           /\ gamma_terms(ret.calls[p].gamma) = BlockGamma(M, inpInds[p])
           /\ \A d \in BlockGamma(M, inpInds[p]).num : d >= 0

(***************************************************************************)
(* The view of a row's lagged block                                        *)
(***************************************************************************)
\* the elements (k, n) of the view that a call reads (distances.cpp:124-125
\* compare all of them with MISSING)
ViewElements(Man) == (0 .. obs_rows(Man) - 1) \X (0 .. Man.E_x - 1)

\* Element (k, n) of the view of row i lies in the lagged block of row i, and
\* is lag n of the series of view row k: the x lags, then the dt lags, then
\* each lagged extra.
ViewInBlock(Man, i) ==
  \A e \in ViewElements(Man) :
     LET k   == e[1]
         n   == e[2]
         ind == laggedObsInd(Man, i, k, n)
         dtRow == Man.E_dt > 0 /\ k = 1
     IN /\ ind < i * Man.E_actual + Man.E_x + Man.E_dt + Man.E_lagged_extras
        /\ k = 0 => ind = i * Man.E_actual + n
        /\ dtRow => n < Man.E_dt /\ ind = i * Man.E_actual + Man.E_x + n
        /\ (k > 0 /\ ~dtRow) =>
              ind = i * Man.E_actual + Man.E_x + Man.E_dt
                      + (k - 1 - B2N(Man.E_dt > 0)) * Man.E_x + n

\* C19: in every embedding, the view that a call takes of the candidate's and
\* of the query's row is exactly the lagged block of that row: row 0 the x
\* lags, row 1 with dt the dt lags, then the lagged extras, and nothing of
\* the unlagged extras, of the next row or past the buffer.
C19_ViewIsLaggedBlock ==
  WDone => /\ \A p \in 1 .. Len(inpInds) : ViewInBlock(M, inpInds[p])
           /\ ViewInBlock(Mp, Mp_i)

\* The same statement for the embeddings with no dt lags or as many dt lags
\* as x lags.
W_ViewOfRectangularBlock ==
  (WDone /\ M.E_dt \in {0, M.E_x}) =>
     /\ \A p \in 1 .. Len(inpInds) : ViewInBlock(M, inpInds[p])
     /\ ViewInBlock(Mp, Mp_i)

(***************************************************************************)
(* The metric tags of the two distance paths                               *)
(***************************************************************************)
\* the column of the layout that holds lag n of view row k, and unlagged
\* extra e
LayoutColumn(Man, k, n) ==
  IF k = 0 THEN n
  ELSE IF Man.E_dt > 0 /\ k = 1 THEN Man.E_x + n
  ELSE Man.E_x + Man.E_dt + (k - 1 - B2N(Man.E_dt > 0)) * Man.E_x + n

UnlaggedColumn(Man, e) == Man.E_x + Man.E_dt + Man.E_lagged_extras + e

\* the lags that view row k has in the layout
LagsOf(Man, k) ==
  IF Man.E_dt > 0 /\ k = 1 THEN 0 .. Man.E_dt - 1 ELSE 0 .. Man.E_x - 1

\* the metric vector that makes the Wasserstein path compare every series
\* under the tag of its column of the layout
LayoutTags(o, Man) ==
  [c \in 1 .. Man.E_actual |->
     IF c <= obs_rows(Man)
       THEN o.metrics[LayoutColumn(Man, c - 1, 0) + 1]
     ELSE IF c - obs_rows(Man) - 1 < Man.E_extras - Man.E_lagged_extras
       THEN o.metrics[UnlaggedColumn(Man, c - obs_rows(Man) - 1) + 1]
     ELSE o.metrics[c]]

\* the cost matrix of the p-th candidate is the one computed under the tags
\* of the layout
CostUnderLayoutTags(p) ==
  \E stray \in Cells :
     ret.calls[p].C =
       wasserstein_cost_matrix(M, Mp, inpInds[p], Mp_i,
                               [opts EXCEPT !.metrics = LayoutTags(opts, M)],
                               absIsInt, stray).C

\* C20: the Wasserstein path compares every lag of the x, dt and
\* lagged-extra series and every unlagged extra under the tag that the
\* metric vector holds for that column of the layout, the tag under which
\* the L^p path compares the column: the cost matrix of every candidate is
\* the one those tags give.
C20_SameTagPerColumn ==
  WDone => \A p \in 1 .. Len(inpInds) : CostUnderLayoutTags(p)

\* With one tag for all columns the two paths compare alike.
W_SameTagWhenUniform ==
  (WDone /\ \A c \in DOMAIN opts.metrics : opts.metrics[c] = opts.metrics[1]) =>
     \A p \in 1 .. Len(inpInds) : CostUnderLayoutTags(p)

(***************************************************************************)
(* The S-map fit of one query (benchmark.cpp:497-619, bm_smap)             *)
(***************************************************************************)
MaxL == 2                       \* largest number l of selected neighbours

FitRows == {0, 1, 2}            \* rows of the library matrix M
FitCols == {0, 1}               \* columns of M
FitY == {1, MISSING_D}          \* targets y

\* w[j] * v (benchmark.cpp:584-588): the weight of neighbour j stays a symbol
Weighted(j, v) == [w |-> j, x |-> v, unit |-> FALSE]

\* w[j] itself (benchmark.cpp:585)
Weight(j) == [w |-> j, x |-> 1, unit |-> TRUE]

\* an element of X_ls, y_ls or w_ls that no iteration has written
Unwritten == [w |-> 0, x |-> 0, unit |-> FALSE]

\* benchmark.cpp:573-579: anyMissing of library row r
smap_any_missing(Mm, r) == \E i \in FitCols : Mm[r][i] = MISSING_D

smap_keep_y_only(Mm, y, r) == y[r] # MISSING_D

\* benchmark.cpp:570-582: the neighbour with library row r gets a row
smap_keep(Mm, y, r) == y[r] # MISSING_D /\ ~smap_any_missing(Mm, r)

\* benchmark.cpp:568-590: the loop over the neighbours j = 0 .. l - 1, from
\* iteration j with acc = [rowc, X_ls, y_ls, w_ls]
RECURSIVE smap_rows(_, _, _, _, _)
smap_rows(Mm, y, ind, j, acc) ==
  IF j >= Len(ind) THEN acc
  ELSE LET r == ind[j + 1]
       IN IF ~smap_keep(Mm, y, r)
            THEN smap_rows(Mm, y, ind, j + 1, acc)
            ELSE LET rowc == acc.rowc + 1
                 IN smap_rows(Mm, y, ind, j + 1,
                      [rowc |-> rowc,
                       y_ls |-> [acc.y_ls EXCEPT ![rowc + 1] = Weighted(j, y[r])],
                       w_ls |-> [acc.w_ls EXCEPT ![rowc + 1] = Weight(j)],
                       X_ls |-> [acc.X_ls EXCEPT ![rowc + 1] =
                                   [i \in FitCols |-> Weighted(j, Mm[r][i])]]])

\* benchmark.cpp:595-604: X_ls_cj, the column w_ls before the first rowc + 1
\* rows of X_ls, by columns 0 .. cols
smap_X_ls_cj(acc) ==
  [i \in 1 .. acc.rowc + 1 |->
     [c \in 0 .. Cardinality(FitCols) |->
        IF c = 0 THEN acc.w_ls[i] ELSE acc.X_ls[i][c - 1]]]

\* benchmark.cpp:595-599: y_ls_cj
smap_y_ls_cj(acc) == [i \in 1 .. acc.rowc + 1 |-> acc.y_ls[i]]

\* benchmark.cpp:557-610: one pass of the fit; solved says that svd.solve
\* was called, on X and y
smap_fit(Mm, y, ind) ==
  LET l   == Len(ind)
      acc == smap_rows(Mm, y, ind, 0,
               [rowc |-> 0 - 1,
                y_ls |-> [i \in 1 .. l |-> Unwritten],
                w_ls |-> [i \in 1 .. l |-> Unwritten],
                X_ls |-> [i \in 1 .. l |-> [c \in FitCols |-> Unwritten]]])
  IN IF acc.rowc = 0 - 1
       THEN [solved |-> FALSE, X |-> <<>>, y |-> <<>>]
       ELSE [solved |-> TRUE, X |-> smap_X_ls_cj(acc), y |-> smap_y_ls_cj(acc)]

\* minindex(d, l): l distinct rows of M, nearest first
FitInds ==
  UNION { { q \in [1 .. l -> FitRows] : \A a, b \in 1 .. l : a # b => q[a] # q[b] } :
            l \in 1 .. MaxL }

InitFit ==
  /\ pc = "fit_call"
  /\ \E Mm \in [FitRows -> [FitCols -> Cells]], y \in [FitRows -> FitY], ind \in FitInds :
       fit = [M |-> Mm, y |-> y, ind |-> ind, out |-> Idle]
  /\ opts = Idle /\ M = Idle /\ Mp = Idle /\ Mp_i = 0 /\ inpInds = <<>>
  /\ absIsInt = FALSE /\ ret = Idle /\ host = Idle /\ loop = Idle /\ run = Idle
  /\ sess = Idle /\ split = Idle

SmapFit ==
  /\ pc = "fit_call"
  /\ fit' = [fit EXCEPT !.out = smap_fit(fit.M, fit.y, fit.ind)]
  /\ pc' = "fit_done"
  /\ UNCHANGED <<opts, M, Mp, Mp_i, inpInds, absIsInt, ret, host, loop, run, sess, split>>

NextFit == SmapFit

SpecFit == InitFit /\ [][NextFit]_vars

FitDone == pc = "fit_done"

\* the neighbours (positions 0 .. l - 1 of ind) whose target and whose library
\* row hold no MISSING, in their order
FitKept ==
  SelectSeq([j \in 1 .. Len(fit.ind) |-> j - 1],
            LAMBDA j : /\ fit.y[fit.ind[j + 1]] # MISSING_D
                       /\ \A c \in FitCols : fit.M[fit.ind[j + 1]][c] # MISSING_D)

\* C21: the design matrix has one row per selected neighbour whose target
\* and whose library row hold no MISSING, in the neighbours' order; the row
\* of neighbour j is w_j, w_j * M(idx_j, 0), ..., w_j * M(idx_j, E_actual - 1)
\* and its right-hand side w_j * y[idx_j]; with no such neighbour nothing is
\* solved.
C21_DesignMatrixRows ==
  FitDone =>
    LET kept == FitKept
    IN /\ fit.out.solved <=> kept # <<>>
       /\ Len(fit.out.X) = Len(kept)
       /\ Len(fit.out.y) = Len(kept)
       /\ \A a \in 1 .. Len(kept) :
            LET j == kept[a]
                r == fit.ind[j + 1]
            IN /\ fit.out.X[a][0] = Weight(j)
               /\ \A c \in FitCols : fit.out.X[a][c + 1] = Weighted(j, fit.M[r][c])
               /\ fit.out.y[a] = Weighted(j, fit.y[r])

\* two neighbours, the first dropped for a MISSING component, the second kept
C21_Witness ==
  /\ FitDone /\ Len(fit.ind) = 2
  /\ fit.y[fit.ind[1]] # MISSING_D
  /\ fit.M[fit.ind[1]][0] = MISSING_D
  /\ fit.out.solved /\ Len(fit.out.X) = 1
  /\ fit.out.X[1][0] = Weight(1)

\* no neighbour qualifies and nothing is solved
Fit_NoneQualifies == FitDone /\ ~fit.out.solved

(***************************************************************************)
(* A session of plugin calls (stata.cpp:62-77, 157-199, 586-643)           *)
(***************************************************************************)
MaxLaunches == 2                \* launches of a session
MaxObs == 2                     \* host rows between in1 and in2

SessCoeffCols == {0, 2}         \* pred.numCoeffCols
SlotCodes == {"SUCCESS", "INSUFFICIENT_UNIQUE"}

\* who wrote edm_running last
ByNone == 0
ByHost == 0 - 1
BySave == 0 - 2

\* the values of a Prediction, by their indices
NoCell == [kind |-> "none", t |-> 0, r |-> 0, c |-> 0]
YstarAt(t, r) == [kind |-> "ystar", t |-> t, r |-> r, c |-> 0]
CoeffAt(t, r, c) == [kind |-> "coeff", t |-> t, r |-> r, c |-> c]

\* the host rows i with SF_ifobs(i), in order (stata.cpp:160-161)
IfRows(obs) == SelectSeq([i \in 1 .. Len(obs) |-> i], LAMBDA i : obs[i])

\* stata.cpp:157-173: the SF_vstore calls of write_stata_columns(span_2d, j0)
\* in their order; extent(0) is nT
write_stata_columns_2d(nT, obs, j0) ==
  LET rows == IfRows(obs)
  IN [n \in 1 .. Len(rows) * nT |->
        LET r  == (n - 1) \div nT
            jj == (n - 1) % nT
        IN [col |-> j0 + jj, row |-> rows[r + 1], val |-> YstarAt(jj, r)]]

\* stata.cpp:179-199: the SF_vstore calls of write_stata_columns(span_3d, j0);
\* extent(0) is nT and extent(2) is K, and j0 advances by K after each t
write_stata_columns_3d(nT, K, obs, j0) ==
  LET rows == IfRows(obs)
      R    == Len(rows)
  IN [n \in 1 .. nT * R * K |->
        LET t  == (n - 1) \div (R * K)
            r  == ((n - 1) % (R * K)) \div K
            jj == (n - 1) % K
        IN [col |-> j0 + t * K + jj, row |-> rows[r + 1], val |-> CoeffAt(t, r, jj)]]

save_writes_always(rc) == TRUE

\* stata.cpp:597
save_writes(rc) == rc = "SUCCESS"

\* stata.cpp:605-612: the stores of save_results, ystar from column 1 and the
\* coefficients from column 2
save_stores(pred, obs) ==
  write_stata_columns_2d(pred.numThetas, obs, 1)
    \o (IF pred.numCoeffCols # 0
          THEN write_stata_columns_3d(pred.numThetas, pred.numCoeffCols, obs, 2)
          ELSE <<>>)

\* stata.cpp:592-624 for a ready future.  failAt = n > 0: the n-th SF_vstore
\* returns an error and write_stata_columns throws (stata.cpp:167-169,
\* 189-191), before finished() is reached.
save_results(pred, obs, failAt) ==
  LET all    == IF save_writes(pred.rc) THEN save_stores(pred, obs) ELSE <<>>
      threw  == failAt > 0 /\ failAt <= Len(all)
      stores == IF threw THEN SubSeq(all, 1, failAt - 1) ELSE all
  IN [macros |-> save_writes(pred.rc), stores |-> stores, threw |-> threw,
      rc |-> IF threw THEN "UNKNOWN_ERROR" ELSE pred.rc]

\* the arguments of the launches of a session: the numlist theta and the
\* coefficient columns asked for; argc is chosen call by call
SessArgs == [numlist : {<<0>>, <<0, 1>>}, varssv : SessCoeffCols]

SessArgcs == {10, 11}

\* the rows that the if of the retrieving call selects: one per prediction
SessObs == {o \in [1 .. MaxObs -> BOOLEAN] : \E i \in 1 .. MaxObs : o[i]}

\* the sizes of the Prediction that the driver returns for opts: a ystar per
\* theta of opts.thetas and per prediction row, varssv coefficient columns
prediction_sizes(thetas, npreds, varssv) ==
  [rc |-> "none", numThetas |-> Len(thetas), numPredictions |-> npreds,
   numCoeffCols |-> varssv]

\* stata.cpp:574-587: the run that std::async starts, with the one theta
\* that edm leaves in opts.thetas
SessRun(a, obs) ==
  [st |-> "running", sawStop |-> FALSE, stopBy |-> ByNone, obs |-> obs,
   listed |-> Len(a.numlist),
   pred |-> prediction_sizes(edm_thetas(a.numlist, a.numlist[1]),
                             Len(IfRows(obs)), a.varssv)]

NoOut == [macros |-> FALSE, stores |-> <<>>, threw |-> FALSE, rc |-> "none"]

InitSess ==
  /\ pc = "sess"
  /\ \E a \in SessArgs, obs \in SessObs :
       sess = [edm_running |-> 0, by |-> ByNone, predictions |-> 0, runs |-> <<>>,
               call |-> "idle", newId |-> 0, last |-> "none", rc |-> "none",
               got |-> 0, out |-> NoOut, gets |-> <<>>, args |-> a, obs |-> obs]
  /\ opts = Idle /\ M = Idle /\ Mp = Idle /\ Mp_i = 0 /\ inpInds = <<>>
  /\ absIsInt = FALSE /\ ret = Idle /\ host = Idle /\ loop = Idle /\ run = Idle
  /\ fit = Idle /\ split = Idle

SessRest == <<pc, opts, M, Mp, Mp_i, inpInds, absIsInt, ret, host, loop, run, fit, split>>

\* the host writes the scalar edm_running between two plugin calls: 1 before
\* a launch, 0 to stop a run
SessHostSet ==
  /\ sess.call = "idle"
  /\ \E v \in {0, 1} :
       /\ v # sess.edm_running
       /\ sess' = [sess EXCEPT !.edm_running = v, !.by = ByHost]
  /\ UNCHANGED SessRest

\* stata_call with argc > 0 (stata.cpp:629-630, 353-590).  std::async has
\* started the new run when the move assignment to predictions releases the
\* state of the earlier future, which waits for the earlier run if that run
\* has not returned (stata.cpp:586-587).
SessLaunch ==
  /\ sess.call = "idle"
  /\ Len(sess.runs) < MaxLaunches
  /\ \E argc \in SessArgcs :
       IF too_few(argc)
         THEN sess' = [sess EXCEPT !.last = "launch", !.rc = "TOO_FEW_VARIABLES"]
         ELSE LET id   == Len(sess.runs) + 1
                  old  == sess.predictions
                  free == old = 0 \/ sess.runs[old].st = "done"
              IN sess' = [sess EXCEPT
                            !.runs = Append(sess.runs, SessRun(sess.args, sess.obs)),
                            !.gets = Append(sess.gets, 0),
                            !.last = "launch",
                            !.predictions = IF free THEN id ELSE old,
                            !.call = IF free THEN "idle" ELSE "assigning",
                            !.newId = IF free THEN 0 ELSE id,
                            !.rc = IF free THEN "SUCCESS" ELSE "none"]
  /\ UNCHANGED SessRest

\* the assignment ends when the earlier run has returned; edm returns SUCCESS
SessAssigned ==
  /\ sess.call = "assigning"
  /\ sess.runs[sess.predictions].st = "done"
  /\ sess' = [sess EXCEPT !.predictions = sess.newId, !.newId = 0,
                          !.call = "idle", !.rc = "SUCCESS"]
  /\ UNCHANGED SessRest

\* a run probes keep_going between two tasks and finds edm_running cleared
SessProbe(id) ==
  /\ id \in 1 .. Len(sess.runs)
  /\ sess.runs[id].st = "running" /\ ~sess.runs[id].sawStop
  /\ ~keep_going(sess)
  /\ sess' = [sess EXCEPT !.runs[id].sawStop = TRUE, !.runs[id].stopBy = sess.by]
  /\ UNCHANGED SessRest

\* a run returns: the worst code of its slots, or the marker of a cancelled
\* run, and the callback finished
SessFinish(id) ==
  /\ id \in 1 .. Len(sess.runs)
  /\ sess.runs[id].st = "running"
  /\ \E rcs \in [1 .. sess.runs[id].pred.numPredictions -> SlotCodes] :
       sess' = [finished(sess) EXCEPT
                  !.by = id,
                  !.runs[id].st = "done",
                  !.runs[id].pred.rc =
                     IF sess.runs[id].sawStop THEN "CANCELLED" ELSE max_element(rcs)]
  /\ UNCHANGED SessRest

\* stata_call with argc = 0 (stata.cpp:631-634, 592-624) with a future that
\* has a state: get waits for the run, and leaves predictions without state
SessRetrieve ==
  /\ sess.call = "idle"
  /\ sess.predictions # 0
  /\ sess.runs[sess.predictions].st = "done"
  /\ LET id == sess.predictions
         r  == sess.runs[id]
     IN \E failAt \in 0 .. Len(save_stores(r.pred, r.obs)) :
          LET res == save_results(r.pred, r.obs, failAt)
              s1  == [sess EXCEPT !.predictions = 0, !.last = "retrieve",
                                  !.got = id, !.gets[id] = sess.gets[id] + 1,
                                  !.out = res, !.rc = res.rc]
          IN sess' = IF res.threw THEN s1
                     ELSE [finished(s1) EXCEPT !.by = BySave]
  /\ UNCHANGED SessRest

\* what predictions.get() does on a future without state (stata.cpp:594): the
\* behaviour is undefined; a library that checks throws future_error, one
\* that does not dereferences a null state
GetNoStateOutcomes == {"throws", "crashes"}

\* stata_call with argc = 0 when predictions has no state: never assigned, or
\* already read
SessRetrieveNoState ==
  /\ sess.call = "idle"
  /\ sess.predictions = 0
  /\ \E o \in GetNoStateOutcomes :
       sess' = IF o = "throws"
                 THEN [sess EXCEPT !.last = "retrieve", !.got = 0, !.out = NoOut,
                                   !.rc = "UNKNOWN_ERROR"]
                 ELSE [sess EXCEPT !.last = "retrieve", !.got = 0, !.out = NoOut,
                                   !.rc = "none", !.call = "crashed"]
  /\ UNCHANGED SessRest

NextSess ==
  \/ SessHostSet
  \/ SessLaunch
  \/ SessAssigned
  \/ \E id \in 1 .. MaxLaunches : SessProbe(id)
  \/ \E id \in 1 .. MaxLaunches : SessFinish(id)
  \/ SessRetrieve
  \/ SessRetrieveNoState

SpecSess == InitSess /\ [][NextSess]_vars

\* the runs keep running and a blocked assignment ends
SpecSessFair ==
  /\ SpecSess
  /\ \A id \in 1 .. MaxLaunches : WF_vars(SessFinish(id))
  /\ WF_vars(SessAssigned)

(***************************************************************************)
(* Properties of a session                                                 *)
(***************************************************************************)
\* a step in which stata_call with argc = 0 returns
RetrievalReturns ==
  (SessRetrieve \/ SessRetrieveNoState) /\ sess'.call = "idle"

\* C22: when a stata_call with argc = 0 returns, with SUCCESS, with an error
\* code or with UNKNOWN_ERROR after an exception, the host scalar edm_running
\* is 0.
C22_RetrievalClearsRunning ==
  [][RetrievalReturns => sess'.edm_running = 0]_vars

\* The same statement for the retrievals in which nothing throws.
Sess_RetrievalWithoutThrowClears ==
  [][(SessRetrieve /\ ~sess'.out.threw) => sess'.edm_running = 0]_vars

\* the state after a stata_call with argc = 0 that read the result of a run
Retrieved == sess.last = "retrieve" /\ sess.got # 0

RetrievedRun == sess.runs[sess.got]

\* the host cells that hold a value of the result: a ystar column per theta
\* from column 1, then the coefficient columns of each theta from column 2,
\* in every selected row
CellsToDeliver(r) ==
  LET rows == IfRows(r.obs)
  IN {<<1 + t, rows[i]>> : t \in 0 .. r.pred.numThetas - 1, i \in 1 .. Len(rows)}
       \cup {<<2 + t * r.pred.numCoeffCols + c, rows[i]>> :
               t \in 0 .. r.pred.numThetas - 1, c \in 0 .. r.pred.numCoeffCols - 1,
               i \in 1 .. Len(rows)}

CellsStored(out) == {<<out.stores[n].col, out.stores[n].row>> : n \in 1 .. Len(out.stores)}

DeliveredAll == sess.out.macros /\ CellsStored(sess.out) = CellsToDeliver(RetrievedRun)

DeliveredNothing == ~sess.out.macros /\ sess.out.stores = <<>>

\* C23 as stated: the outputs are delivered if and only if the reduced code
\* of the run is SUCCESS: with SUCCESS the macros and all cells are written,
\* with any other code nothing is written and the code is returned.
C23_DeliversIffSuccess ==
  Retrieved =>
    /\ RetrievedRun.pred.rc = "SUCCESS" => DeliveredAll
    /\ RetrievedRun.pred.rc # "SUCCESS" =>
         DeliveredNothing /\ sess.rc = RetrievedRun.pred.rc

\* C23 amended: the same, where no store to a host variable fails; when a
\* store fails the code of the run was SUCCESS, the macros and the cells
\* stored before it are written and UNKNOWN_ERROR is returned.
C23_DeliversIffSuccessUnlessStoreFails ==
  Retrieved =>
    /\ (RetrievedRun.pred.rc = "SUCCESS" /\ ~sess.out.threw) =>
         DeliveredAll /\ sess.rc = "SUCCESS"
    /\ RetrievedRun.pred.rc # "SUCCESS" =>
         DeliveredNothing /\ sess.rc = RetrievedRun.pred.rc /\ ~sess.out.threw
    /\ sess.out.threw =>
         /\ RetrievedRun.pred.rc = "SUCCESS" /\ sess.rc = "UNKNOWN_ERROR"
         /\ sess.out.macros
         /\ CellsStored(sess.out) \subseteq CellsToDeliver(RetrievedRun)
         /\ CellsStored(sess.out) # CellsToDeliver(RetrievedRun)

\* a run of two predictions whose worst code is INSUFFICIENT_UNIQUE was
\* retrieved, and a run with SUCCESS and coefficient columns was retrieved
C23_Witness ==
  /\ Retrieved
  /\ RetrievedRun.pred.numPredictions = 2
  /\ RetrievedRun.pred.rc = "INSUFFICIENT_UNIQUE"
  /\ sess.rc = "INSUFFICIENT_UNIQUE"

Sess_DeliveredWithCoeffs ==
  /\ Retrieved /\ RetrievedRun.pred.rc = "SUCCESS" /\ ~sess.out.threw
  /\ RetrievedRun.pred.numCoeffCols = 2 /\ RetrievedRun.pred.numPredictions = 2

\* C26: in every result that save_results writes, no column receives both a
\* ystar value and a coefficient, no stored ystar value is stored over, and
\* the r-th selected host row receives the values of prediction index r.
C26_DisjointColumns ==
  Retrieved =>
    LET st   == sess.out.stores
        rows == IfRows(RetrievedRun.obs)
    IN /\ \A n, m \in 1 .. Len(st) :
            (st[n].val.kind = "ystar" /\ st[m].val.kind = "coeff") => st[n].col # st[m].col
       /\ \A n, m \in 1 .. Len(st) :
            (n < m /\ st[n].val.kind = "ystar") =>
               <<st[n].col, st[n].row>> # <<st[m].col, st[m].row>>
       /\ \A n \in 1 .. Len(st) : rows[st[n].val.r + 1] = st[n].row

\* a result with coefficient columns for two predictions was written, for a
\* launch whose numlist theta held two thetas
C26_Witness ==
  /\ Retrieved /\ RetrievedRun.pred.rc = "SUCCESS" /\ ~sess.out.threw
  /\ RetrievedRun.listed = 2
  /\ RetrievedRun.pred.numCoeffCols = 2 /\ RetrievedRun.pred.numPredictions = 2

\* the runs that are executing
Executing == {id \in 1 .. Len(sess.runs) : sess.runs[id].st = "running"}

\* C27: at any time at most one run is executing, whatever the sequence of
\* host calls, and no run takes the finished() of another run for a
\* cancellation: a probe that found edm_running cleared found it cleared by
\* the host or by a retrieval, not by another run.
C27_OneRunAtATime ==
  /\ Cardinality(Executing) <= 1
  /\ \A id \in 1 .. Len(sess.runs) :
       sess.runs[id].sawStop => sess.runs[id].stopBy \notin (1 .. Len(sess.runs)) \ {id}

\* a run is cancelled by the completion of the run before it
Sess_CancelledByOtherRun ==
  \E id \in 1 .. Len(sess.runs) :
     /\ sess.runs[id].st = "done" /\ sess.runs[id].pred.rc = "CANCELLED"
     /\ sess.runs[id].stopBy \in (1 .. Len(sess.runs)) \ {id}

\* no result is read twice
GotAtMostOnce == \A id \in 1 .. Len(sess.gets) : sess.gets[id] <= 1

\* C28: every launched run is retrieved at most once; a stata_call with
\* argc = 0 after a successful launch waits for that run and returns its
\* reduced code; a stata_call with argc = 0 when no run is pending returns
\* UNKNOWN_ERROR and writes no host variable.
C28_RetrievedAtMostOnce ==
  /\ []GotAtMostOnce
  /\ [][SessRetrieve =>
          /\ sess.runs[sess.predictions].st = "done"
          /\ sess'.got = sess.predictions
          /\ sess'.rc = sess.runs[sess.predictions].pred.rc]_vars
  /\ [][SessRetrieveNoState =>
          /\ sess'.call = "idle" /\ sess'.rc = "UNKNOWN_ERROR"
          /\ sess'.out.stores = <<>> /\ ~sess'.out.macros]_vars

\* The same statement where no store to a host variable fails and the
\* library checks the state of the future in get.
Sess_RetrievalChecked ==
  /\ []GotAtMostOnce
  /\ [][(SessRetrieve /\ ~sess'.out.threw) =>
          /\ sess'.got = sess.predictions
          /\ sess'.rc = sess.runs[sess.predictions].pred.rc]_vars
  /\ [][(SessRetrieveNoState /\ sess'.call = "idle") =>
          /\ sess'.rc = "UNKNOWN_ERROR"
          /\ sess'.out.stores = <<>> /\ ~sess'.out.macros]_vars

(***************************************************************************)
(* The training and prediction filters built by edm (stata.cpp:221-247,    *)
(* 269-286, 453-568)                                                       *)
(***************************************************************************)
MaxSplitCalls == 2              \* launches of a session

SplitRowIds == {1, 2, 3}        \* the host rows of the call
UValues == {0, 1, 2}            \* draws of U(rng), all below 1
RngLen == Cardinality(UValues) + 1   \* states of the generator
Folds == {1, 2}                 \* values of the macro crossfold above 0

\* the default uCutoff 1.0 (stata.cpp:476), above every draw
UOne == 3

\* the macro _edm_rng_state: empty, of another length than expected, or the
\* state of a generator
RngMacros == {[kind |-> "empty", state |-> 0], [kind |-> "malformed", state |-> 0]}
               \cup {[kind |-> "state", state |-> k] : k \in {0, 1}}

\* stata.cpp:221-247: the generator after stata_load_rng_seed
stata_load_rng_seed(rng, macro) ==
  IF macro.kind = "state" THEN macro.state ELSE rng

\* the n-th draw (from 0) of a generator in state rng, and its state after n
\* draws
Draw(table, rng, n) == table[((rng + n) % RngLen) + 1]

AfterDraws(rng, n) == (rng + n) % RngLen

\* stata.cpp:457-463: the rows in one of the host's filters, in order
InSample(train, predict) ==
  SelectSeq([i \in 1 .. Cardinality(SplitRowIds) |-> i],
            LAMBDA i : train[i] \/ predict[i])

\* stata.cpp:269-286: rank(v), from 1, of the pairs (v[i], i) in their order
rank(v) ==
  [i \in 1 .. Len(v) |->
     1 + Cardinality({j \in 1 .. Len(v) : v[j] < v[i] \/ (v[j] = v[i] /\ j < i)})]

\* std::nth_element at position k (from 0), stata.cpp:479-481
nth_element(v, k) ==
  LET i == CHOOSE i \in 1 .. Len(v) : rank(v)[i] = k + 1 IN v[i]

\* stata.cpp:476-482: uCutoff for the library size
uCutoff(u, library) ==
  IF library < Len(u) THEN nth_element(u, library) ELSE UOne

xmap_trains_le(x, cutoff) == x <= cutoff

\* stata.cpp:488
xmap_trains(x, cutoff) == x < cutoff

crossfold_predicts_from_one(r, crossfold, t) == r % crossfold = t

\* stata.cpp:527
crossfold_predicts(r, crossfold, t) == r % crossfold = t - 1

\* stata.cpp:249-267 and 545, 550: u[obsNum] < median(u), on doubled values
below_median(u, x) ==
  LET n  == Len(u)
      at(k) == nth_element(u, k)
  IN IF n % 2 = 0
       THEN 2 * x < at(n \div 2 - 1) + at(n \div 2)
       ELSE x < at(n \div 2)

\* stata.cpp:465-568: trainingRows and predictionRows as edm leaves them, for
\* the host's filters, the draws u of the in-sample rows and the macros and
\* scalars m of the call
edm_filters(train, predict, u, m) ==
  LET rows == InSample(train, predict)
      obsNum(i) == CHOOSE k \in 1 .. Len(rows) : rows[k] = i
      inS(i) == train[i] \/ predict[i]
      cut == uCutoff(u, m.library)
      uRank == rank(u)
      t2 == [i \in 1 .. Len(train) |->
               IF ~inS(i) THEN FALSE
               ELSE IF m.xmap THEN xmap_trains(u[obsNum(i)], cut)
               ELSE IF m.full THEN TRUE
               ELSE IF m.crossfold > 0
                      THEN ~crossfold_predicts(uRank[obsNum(i)], m.crossfold, m.t)
               ELSE below_median(u, u[obsNum(i)])]
      p2 == [i \in 1 .. Len(train) |->
               IF ~inS(i) THEN FALSE
               ELSE IF m.xmap THEN TRUE
               ELSE IF m.full THEN TRUE
               ELSE IF m.crossfold > 0
                      THEN crossfold_predicts(uRank[obsNum(i)], m.crossfold, m.t)
               ELSE ~below_median(u, u[obsNum(i)])]
  IN IF m.copredict
       THEN [trainingRows |-> train, predictionRows |-> predict]
       ELSE [trainingRows |-> t2, predictionRows |-> p2]

\* the modes of a call: xmap with a library size, or explore with the
\* macros full and crossfold (stata.cpp:504-508, read independently of each
\* other) and a fold t
SplitModes ==
  {[xmap |-> TRUE, library |-> L, full |-> FALSE, crossfold |-> 0, t |-> 0] :
      L \in 0 .. Cardinality(SplitRowIds) + 1}
    \cup {[xmap |-> FALSE, library |-> 0, full |-> f, crossfold |-> 0, t |-> 0] :
            f \in BOOLEAN}
    \cup {[xmap |-> FALSE, library |-> 0, full |-> f, crossfold |-> c, t |-> t] :
            f \in BOOLEAN, c \in Folds, t \in 1 .. 2}

SplitCalls ==
  {[xmap |-> m.xmap, library |-> m.library, full |-> m.full, crossfold |-> m.crossfold,
    t |-> m.t, copredict |-> cp, macro |-> mac] :
      m \in {x \in SplitModes : x.t <= x.crossfold}, cp \in BOOLEAN, mac \in RngMacros}

\* the filters of the host: a row is in neither, in the training filter, in
\* the prediction filter or in both
HostFilters ==
  {f \in [SplitRowIds -> {"neither", "train", "predict", "both"}] : TRUE}

InitSplit ==
  /\ pc = "split"
  /\ \E f \in HostFilters, m \in SplitCalls, table \in [1 .. RngLen -> UValues] :
       split = [train   |-> [i \in 1 .. Cardinality(SplitRowIds) |-> f[i] \in {"train", "both"}],
                predict |-> [i \in 1 .. Cardinality(SplitRowIds) |-> f[i] \in {"predict", "both"}],
                m |-> m, table |-> table, rng |-> 0, log |-> <<>>]
  /\ opts = Idle /\ M = Idle /\ Mp = Idle /\ Mp_i = 0 /\ inpInds = <<>>
  /\ absIsInt = FALSE /\ ret = Idle /\ host = Idle /\ loop = Idle /\ run = Idle
  /\ fit = Idle /\ sess = Idle

\* one launch: stata.cpp:453-568.  The generator rng is a global
\* (stata.cpp:64): seeded from the macro if that holds a state, then drawn
\* from once per in-sample row.
SplitLaunch ==
  /\ Len(split.log) < MaxSplitCalls
  /\ LET rng0 == stata_load_rng_seed(split.rng, split.m.macro)
         n    == Len(InSample(split.train, split.predict))
         u    == [k \in 1 .. n |-> Draw(split.table, rng0, k - 1)]
         f    == edm_filters(split.train, split.predict, u, split.m)
     IN split' = [split EXCEPT
                    !.rng = AfterDraws(rng0, n),
                    !.log = Append(split.log,
                                   [u |-> u, trainingRows |-> f.trainingRows,
                                    predictionRows |-> f.predictionRows])]
  /\ UNCHANGED <<pc, opts, M, Mp, Mp_i, inpInds, absIsInt, ret, host, loop, run, fit, sess>>

NextSplit == SplitLaunch

SpecSplit == InitSplit /\ [][NextSplit]_vars

(***************************************************************************)
(* Properties of the filters                                               *)
(***************************************************************************)
SplitRowsOf == 1 .. Cardinality(SplitRowIds)

SplitInSample(i) == split.train[i] \/ split.predict[i]

\* the prediction filter of fold t for the draws u
FoldOf(u, t) ==
  edm_filters(split.train, split.predict, u, [split.m EXCEPT !.t = t]).predictionRows

FoldSize(u, t) == Cardinality({i \in SplitRowsOf : FoldOf(u, t)[i]})

\* the crossfold branch (stata.cpp:521) is the one taken
CrossfoldCall ==
  ~split.m.xmap /\ ~split.m.copredict /\ ~split.m.full /\ split.m.crossfold > 0

\* C24: in explore mode with crossfold = c > 0 and without coprediction, the
\* two filters of a launch have the length of the input, are false on the
\* rows that are in neither input filter, and split the in-sample rows in
\* two; and for the draws u of the launch, over t = 1 .. c every in-sample
\* row is in the prediction filter of exactly one t and the sizes of the
\* folds differ by at most one.
C24_CrossfoldPartition ==
  CrossfoldCall =>
    \A n \in 1 .. Len(split.log) :
       LET e == split.log[n]
           c == split.m.crossfold
       IN /\ Len(e.trainingRows) = Len(split.train)
          /\ Len(e.predictionRows) = Len(split.train)
          /\ \A i \in SplitRowsOf :
               /\ ~SplitInSample(i) => ~e.trainingRows[i] /\ ~e.predictionRows[i]
               /\ SplitInSample(i) => (e.trainingRows[i] <=> ~e.predictionRows[i])
          /\ \A i \in SplitRowsOf :
               SplitInSample(i) =>
                 Cardinality({t \in 1 .. c : FoldOf(e.u, t)[i]}) = 1
          /\ \A t1, t2 \in 1 .. c : FoldSize(e.u, t1) - FoldSize(e.u, t2) <= 1

\* a launch with two folds over three in-sample rows, two of them with the
\* same draw
C24_Witness ==
  /\ CrossfoldCall /\ split.m.crossfold = 2 /\ split.m.t = 2
  /\ Len(split.log) >= 1
  /\ Len(split.log[1].u) = 3
  /\ split.log[1].u[1] = split.log[1].u[2]
  /\ Cardinality({i \in SplitRowsOf : split.log[1].predictionRows[i]}) = 2
  /\ Cardinality({i \in SplitRowsOf : split.log[1].trainingRows[i]}) = 1

XmapCall == split.m.xmap /\ ~split.m.copredict

Distinct(u) == \A a, b \in 1 .. Len(u) : a # b => u[a] # u[b]

\* the in-sample rows with the k smallest draws
SmallestDraws(u, k) ==
  LET rows == InSample(split.train, split.predict)
  IN {rows[a] : a \in {a \in 1 .. Len(u) :
                         Cardinality({b \in 1 .. Len(u) : u[b] < u[a]}) < k}}

\* C25: in xmap mode without coprediction, with n in-sample rows of pairwise
\* distinct draws and library size L >= 0, the prediction filter is the set
\* of in-sample rows and the training filter is the set of the min(L, n)
\* in-sample rows with the smallest draws; the other rows are in neither.
C25_XmapLibrary ==
  XmapCall =>
    \A n \in 1 .. Len(split.log) :
       LET e == split.log[n]
           k == Min(split.m.library, Len(e.u))
       IN Distinct(e.u) =>
            /\ {i \in SplitRowsOf : e.predictionRows[i]} = {i \in SplitRowsOf : SplitInSample(i)}
            /\ {i \in SplitRowsOf : e.trainingRows[i]} = SmallestDraws(e.u, k)
            /\ Cardinality({i \in SplitRowsOf : e.trainingRows[i]}) = k

\* three in-sample rows with distinct draws and a library of two
C25_Witness ==
  /\ XmapCall /\ split.m.library = 2
  /\ Len(split.log) >= 1
  /\ Len(split.log[1].u) = 3 /\ Distinct(split.log[1].u)
  /\ split.log[1].u[1] > split.log[1].u[2]
  /\ Cardinality({i \in SplitRowsOf : split.log[1].trainingRows[i]}) = 2

\* a library at least as large as the sample, and an empty library
Split_XmapWholeSample ==
  /\ XmapCall /\ split.m.library = 4
  /\ Len(split.log) >= 1 /\ Len(split.log[1].u) = 3 /\ Distinct(split.log[1].u)
  /\ Cardinality({i \in SplitRowsOf : split.log[1].trainingRows[i]}) = 3

SameFilters(a, b) ==
  /\ split.log[a].trainingRows = split.log[b].trainingRows
  /\ split.log[a].predictionRows = split.log[b].predictionRows

\* C29: two launches of a session with the same arguments, host data and
\* host macros (the macro _edm_rng_state may be empty or malformed) build the
\* same training and prediction filters, however many launches came before.
C29_FiltersDeterministic ==
  \A a, b \in 1 .. Len(split.log) : SameFilters(a, b)

\* the launches agree when the macro holds a generator state, and in the
\* modes that do not look at the draws
Split_DeterministicWhenSeeded ==
  (split.m.macro.kind = "state" \/ split.m.copredict
     \/ (~split.m.xmap /\ split.m.full))
    => \A a, b \in 1 .. Len(split.log) : SameFilters(a, b)

\* a second launch that found the macro empty and the generator where the
\* first launch left it
Split_SecondLaunchUnseeded ==
  /\ Len(split.log) = 2
  /\ split.m.macro.kind = "empty"
  /\ split.log[1].u # split.log[2].u
  /\ ~SameFilters(1, 2)

(***************************************************************************)
(* afLPDistances (distances.cpp:581-640): the batched L^p routine          *)
(***************************************************************************)
AfEs == {1, 2}                  \* values of E_actual
AfQueryRows == {0, 1}           \* rows of the query manifold, all of them queried
AfPanels == {<<0, 1>>}          \* in panel mode the rows of a manifold are of two panels

\* distances.cpp:609: missing(j, i, q)
af_missing(Ml, Mq, i, q, j) ==
  (MAt(Ml, i, j) = MISSING_D) \/ (MAt(Mq, q, j) = MISSING_D)

\* distances.cpp:606-608: distMMp(j, i, q), in units of 1/Scale; metricOpts(j)
\* is metrics[j] == Metric::Diff (distances.cpp:332-336)
af_distMMp(o, Ml, Mq, i, q, j) ==
  IF o.metrics[j + 1] = "Diff"
    THEN MAt(Ml, i, j) - MAt(Mq, q, j)
    ELSE (IF MAt(Ml, i, j) # MAt(Mq, q, j) THEN Scale ELSE 0)

\* distances.cpp:611-618: distsMat(j, i, q) before the penalties, in the units
\* of lp_den
af_distsMat(o, Ml, Mq, i, q, j) ==
  LET d == IF o.missingdistance = 0 THEN af_distMMp(o, Ml, Mq, i, q, j)
           ELSE IF af_missing(Ml, Mq, i, q, j) THEN o.missingdistance
           ELSE af_distMMp(o, Ml, Mq, i, q, j)
  IN IF IsMAE(o) THEN Abs(d) ELSE d * d

\* distances.cpp:621-623: penalty(i, q), in the units of lp_den
af_penalty(o, Ml, Mq, i, q) ==
  o.idw * (IF panel(Ml, i) # panel(Mq, q) THEN 1 ELSE 0) * lp_den(o, Ml)

\* distances.cpp:620-627: penalties(j, i, q), the penalty tiled over the
\* E_actual entries of the first axis, which distsMat += penalties adds
af_penalties(o, Ml, Mq, i, q, j) ==
  IF o.panelMode /\ o.idw > 0 THEN af_penalty(o, Ml, Mq, i, q) ELSE 0

\* distances.cpp:628: accDists(i, q) = sum(distsMat, 0)
af_accDists(o, Ml, Mq, i, q) ==
  SeqSum([n \in 1 .. Ml.E_actual |->
            af_distsMat(o, Ml, Mq, i, q, n - 1) + af_penalties(o, Ml, Mq, i, q, n - 1)])

\* distances.cpp:612, 629: distances(i, q)
af_distances(o, Ml, Mq, i, q) ==
  IF (\E j \in 0 .. Ml.E_actual - 1 : af_missing(Ml, Mq, i, q, j)) /\ o.missingdistance = 0
    THEN lp_missing(o, Ml)
    ELSE af_accDists(o, Ml, Mq, i, q)

\* distances.cpp:581-640: valids and dists, both mnobs x npreds
afLPDistances(npreds, o, Ml, Mq) ==
  LET at == [i \in 0 .. Ml.nobs - 1, q \in 0 .. npreds - 1 |-> af_distances(o, Ml, Mq, i, q)]
  IN [valids |-> [i \in 0 .. Ml.nobs - 1, q \in 0 .. npreds - 1 |->
                    at[i, q] # 0 /\ at[i, q] # lp_missing(o, Ml)],
      dists  |-> [i \in 0 .. Ml.nobs - 1, q \in 0 .. npreds - 1 |->
                    lp_value(o, Ml, at[i, q])]]

AfManifolds(n, panels, E) ==
  { [flat |-> f, panel_ids |-> p, nobs |-> n,
     E_x |-> E, E_dt |-> 0, E_extras |-> 0, E_lagged_extras |-> 0, E_actual |-> E] :
      f \in [1 .. n * E -> Cells], p \in panels }

AfOptions(E) ==
  { [distance |-> d, metrics |-> m, missingdistance |-> md, panelMode |-> pm, idw |-> w] :
      d \in {"Euclidean", "MeanAbsoluteError"},
      m \in [1 .. E -> Metrics],
      md \in 0 .. MaxMissingDistance,
      pm \in BOOLEAN,
      w \in {0, MaxIdw} }

AfLibraryRows == [n \in 1 .. Cardinality(LibRows) |-> n - 1]

InitAf ==
  /\ pc = "af_call"
  /\ \E E \in AfEs :
       /\ opts \in AfOptions(E)
       /\ M \in AfManifolds(Cardinality(LibRows),
                            IF opts.panelMode THEN AfPanels
                                              ELSE {[n \in 1 .. Cardinality(LibRows) |-> 0]}, E)
       /\ Mp \in AfManifolds(Cardinality(AfQueryRows),
                             IF opts.panelMode THEN AfPanels
                                               ELSE {[n \in 1 .. Cardinality(AfQueryRows) |-> 0]}, E)
  /\ absIsInt \in (IF IsMAE(opts) THEN BOOLEAN ELSE {FALSE})
  /\ Mp_i = 0
  /\ inpInds = AfLibraryRows
  /\ ret = Idle
  /\ host = Idle
  /\ loop = Idle
  /\ run = Idle
  /\ AuxIdle

AfCall ==
  /\ pc = "af_call"
  /\ ret' = afLPDistances(Mp.nobs, opts, M, Mp)
  /\ pc' = "af_done"
  /\ UNCHANGED <<opts, M, Mp, Mp_i, inpInds, absIsInt, host, loop, run, aux>>

NextAf == AfCall

SpecAf == InitAf /\ [][NextAf]_vars

(***************************************************************************)
(* Properties of afLPDistances                                             *)
(***************************************************************************)
AfDone == pc = "af_done"

\* what lp_distances returns for query q over all the library rows
CpuOf(q) == lp_distances(q, opts, M, Mp, inpInds, absIsInt)

\* the pair (i, q) has the validity and the distance that lp_distances gives it
AfAgrees(i, q) ==
  LET cpu == CpuOf(q)
  IN /\ ret.valids[i, q] <=> (i \in Range(cpu.inds))
     /\ \A n \in DOMAIN cpu.inds : cpu.inds[n] = i => ret.dists[i, q] = cpu.dists[n]

\* C30: for every query q < npreds and library row i, afLPDistances marks
\* (i, q) valid exactly when lp_distances(q, ..., all library rows) returns i
\* and reports the same distance for it; with panels and idw > 0 the penalty
\* is part of the distance once, whatever E_actual is.
C30_BatchedRefinesCpu ==
  AfDone => \A i \in 0 .. M.nobs - 1, q \in 0 .. Mp.nobs - 1 : AfAgrees(i, q)

\* the two routines agree on a pair whenever the penalty is zero or there is
\* one column, in a build whose abs is that of doubles
Af_AgreesWithoutPenalty ==
  (AfDone /\ ~absIsInt) =>
    \A i \in 0 .. M.nobs - 1, q \in 0 .. Mp.nobs - 1 :
      (af_penalties(opts, M, Mp, i, q, 0) = 0 \/ M.E_actual = 1) => AfAgrees(i, q)

\* a pair of two panels and two columns whose batched distance holds the
\* penalty twice
Af_PenaltyTwice ==
  /\ AfDone /\ ~absIsInt /\ opts.panelMode /\ opts.idw > 0 /\ M.E_actual = 2
  /\ opts.missingdistance > 0
  /\ panel(M, 0) # panel(Mp, 1)
  /\ ret.valids[0, 1]
  /\ ret.dists[0, 1].num = dist_i(opts, M, Mp, 0, 1, absIsInt) + af_penalty(opts, M, Mp, 0, 1)

====
